---- MODULE Spec2Model ----
(***************************************************************************)
(* A model of sajson (src/cbits/sajson.hpp): the single-allocation arena,  *)
(* the goto state machine of parser::parse, the string and number          *)
(* scanners, install_array / install_object, the document and the value    *)
(* navigation API.                                                         *)
(*                                                                         *)
(* Bytes are the integers 0..255.  Pointers into the input are byte        *)
(* offsets from input.get_data(); pointers into the arena are word         *)
(* offsets from the buffer start.  A null char* is NULL.                   *)
(***************************************************************************)
EXTENDS Integers, Sequences, FiniteSets, TLC

(***************************************************************************)
(* Bounds of the model.                                                    *)
(***************************************************************************)
\* longest token sequence tried after an opening bracket or brace
MaxTokens == 4
\* longest token sequence tried with any first token
FreeTokens == 3
\* most values (the root included) of a generated document
MaxNodes == 4
\* longest run of whitespace bytes tried around a root
MaxPad == 2
\* most pieces (bytes, escapes) of a string literal
MaxPieces == 2

(***************************************************************************)
(* Character codes used by the parser's comparisons.                       *)
(***************************************************************************)
CH == [ tab |-> 9, lf |-> 10, cr |-> 13, space |-> 32, quote |-> 34,
        plus |-> 43, comma |-> 44, minus |-> 45, dot |-> 46, slash |-> 47,
        zero |-> 48, nine |-> 57, colon |-> 58,
        A |-> 65, E |-> 69, F |-> 70,
        lbracket |-> 91, backslash |-> 92, rbracket |-> 93,
        a |-> 97, b |-> 98, e |-> 101, f |-> 102, l |-> 108, n |-> 110,
        r |-> 114, s |-> 115, t |-> 116, u |-> 117,
        lbrace |-> 123, rbrace |-> 125 ]

NULL == -1

(***************************************************************************)
(* internal::tag and the tagged-word codec.                                *)
(***************************************************************************)
TAG == [ integer |-> 0, double_ |-> 1, null |-> 2, false_ |-> 3,
         true_ |-> 4, string |-> 5, array |-> 6, object |-> 7 ]

TAG_BITS == 3
TAG_MASK == (2 ^ TAG_BITS) - 1
\* size_t is modelled 31 bits wide, the widest word TLC's integers hold;
\* every offset of the model is far below it.
VALUE_MASK == (2 ^ (31 - TAG_BITS)) - 1
ROOT_MARKER == VALUE_MASK

get_element_tag(s) == s % (TAG_MASK + 1)

get_element_value(s) == s \div (2 ^ TAG_BITS)

make_element(t, value) == t + value * (2 ^ TAG_BITS)

\* length > 100, SAJSON_UNSORTED_OBJECT_KEYS not defined
SortThreshold == 100
\* a variant that sorts an object of exactly 100 members too
should_binary_search_at_threshold(length) == length >= SortThreshold

should_binary_search(length) == length > SortThreshold

(***************************************************************************)
(* parse_flags: bit 0 plain string character, bit 1 whitespace,            *)
(* bit 4 one of 0-9 e E .                                                  *)
(***************************************************************************)
parse_flags(c) ==
    IF c = 32 THEN 3
    ELSE IF c \in {9, 10, 13} THEN 2
    ELSE IF c \in 48..57 \/ c \in {46, 69, 101} THEN 17
    ELSE IF c >= 33 /\ c <= 127 /\ c # 34 /\ c # 92 THEN 1
    ELSE 0

is_plain_string_character(c) == (parse_flags(c) % 2) # 0

is_whitespace(c) == ((parse_flags(c) \div 2) % 2) # 0

(***************************************************************************)
(* enum error and internal::get_error_text.                                *)
(***************************************************************************)
Errors == { "ERROR_NO_ERROR", "ERROR_OUT_OF_MEMORY", "ERROR_UNEXPECTED_END",
            "ERROR_MISSING_ROOT_ELEMENT", "ERROR_BAD_ROOT",
            "ERROR_EXPECTED_COMMA", "ERROR_MISSING_OBJECT_KEY",
            "ERROR_EXPECTED_COLON", "ERROR_EXPECTED_END_OF_INPUT",
            "ERROR_UNEXPECTED_COMMA", "ERROR_EXPECTED_VALUE",
            "ERROR_EXPECTED_NULL", "ERROR_EXPECTED_FALSE",
            "ERROR_EXPECTED_TRUE", "ERROR_INVALID_NUMBER",
            "ERROR_MISSING_EXPONENT", "ERROR_ILLEGAL_CODEPOINT",
            "ERROR_INVALID_UNICODE_ESCAPE", "ERROR_UNEXPECTED_END_OF_UTF16",
            "ERROR_EXPECTED_U", "ERROR_INVALID_UTF16_TRAIL_SURROGATE",
            "ERROR_UNKNOWN_ESCAPE", "ERROR_INVALID_UTF8",
            "ERROR_UNINITIALIZED" }

\* the value of a parser field that no constructor or assignment has set
INDETERMINATE == "indeterminate"

get_error_text(error_code) ==
    CASE error_code = "ERROR_NO_ERROR" -> "no error"
      [] error_code = "ERROR_OUT_OF_MEMORY" -> "out of memory"
      [] error_code = "ERROR_UNEXPECTED_END" -> "unexpected end of input"
      [] error_code = "ERROR_MISSING_ROOT_ELEMENT" -> "missing root element"
      [] error_code = "ERROR_BAD_ROOT" -> "document root must be object or array"
      [] error_code = "ERROR_EXPECTED_COMMA" -> "expected ,"
      [] error_code = "ERROR_MISSING_OBJECT_KEY" -> "missing object key"
      [] error_code = "ERROR_EXPECTED_COLON" -> "expected :"
      [] error_code = "ERROR_EXPECTED_END_OF_INPUT" -> "expected end of input"
      [] error_code = "ERROR_UNEXPECTED_COMMA" -> "unexpected comma"
      [] error_code = "ERROR_EXPECTED_VALUE" -> "expected value"
      [] error_code = "ERROR_EXPECTED_NULL" -> "expected 'null'"
      [] error_code = "ERROR_EXPECTED_FALSE" -> "expected 'false'"
      [] error_code = "ERROR_EXPECTED_TRUE" -> "expected 'true'"
      [] error_code = "ERROR_INVALID_NUMBER" -> "invalid number"
      [] error_code = "ERROR_MISSING_EXPONENT" -> "missing exponent"
      [] error_code = "ERROR_ILLEGAL_CODEPOINT" -> "illegal unprintable codepoint in string"
      [] error_code = "ERROR_INVALID_UNICODE_ESCAPE" -> "invalid character in unicode escape"
      [] error_code = "ERROR_UNEXPECTED_END_OF_UTF16" -> "unexpected end of input during UTF-16 surrogate pair"
      [] error_code = "ERROR_EXPECTED_U" -> "expected \\u"
      [] error_code = "ERROR_INVALID_UTF16_TRAIL_SURROGATE" -> "invalid UTF-16 trail surrogate"
      [] error_code = "ERROR_UNKNOWN_ESCAPE" -> "unknown escape"
      [] error_code = "ERROR_INVALID_UTF8" -> "invalid UTF-8"
      [] error_code = "ERROR_UNINITIALIZED" -> "uninitialized document"
      [] OTHER -> ""

(***************************************************************************)
(* document: the two constructors and is_valid.  formatted_error_message   *)
(* is the sequence of the pieces snprintf writes: <<>> is the empty string.*)
(***************************************************************************)
has_significant_error_arg(error_code) == error_code = "ERROR_ILLEGAL_CODEPOINT"

\* a variant of the success constructor that sets the position to (1, 1)
DocumentOk_at_line_one(root_tag_, root_) ==
    [ root_tag |-> root_tag_, root |-> root_,
      error_line |-> 1, error_column |-> 1,
      error_code |-> "ERROR_NO_ERROR", error_arg |-> 0,
      formatted_error_message |-> << >> ]

DocumentOk(root_tag_, root_) ==
    [ root_tag |-> root_tag_, root |-> root_,
      error_line |-> 0, error_column |-> 0,
      error_code |-> "ERROR_NO_ERROR", error_arg |-> 0,
      formatted_error_message |-> << >> ]

DocumentError(error_line_, error_column_, error_code_, error_arg_) ==
    [ root_tag |-> TAG.null, root |-> NULL,
      error_line |-> error_line_, error_column |-> error_column_,
      error_code |-> error_code_, error_arg |-> error_arg_,
      formatted_error_message |->
          IF has_significant_error_arg(error_code_)
          THEN << get_error_text(error_code_), ": ", error_arg_ >>
          ELSE << get_error_text(error_code_) >> ]

DocumentDefault == DocumentError(0, 0, "ERROR_UNINITIALIZED", 0)

is_valid(d) == d.root_tag = TAG.array \/ d.root_tag = TAG.object

(***************************************************************************)
(* Scanning helpers of parser.  s is the input buffer (a sequence of       *)
(* bytes, s[i + 1] is the byte at offset i), Len(s) is input_end.          *)
(***************************************************************************)
\* an error raised by a scanner: make_error's arguments
Err(pos, code, arg) == [ pos |-> pos, code |-> code, arg |-> arg ]

NoErr == Err(NULL, "ERROR_NO_ERROR", 0)

at_eof(s, p) == p = Len(s)

\* a variant that is content with one byte fewer than it is asked for
has_remaining_characters_one_short(s, p, remaining) == Len(s) - p >= remaining - 1

has_remaining_characters(s, p, remaining) == Len(s) - p >= remaining

RECURSIVE skip_whitespace(_, _)
skip_whitespace(s, p) ==
    IF p = Len(s) THEN NULL
    ELSE IF is_whitespace(s[p + 1]) THEN skip_whitespace(s, p + 1)
    ELSE p

\* the walk of make_error from offset c to p: line and column
RECURSIVE ErrorWalk(_, _, _, _, _)
ErrorWalk(s, c, p, line, column) ==
    IF ~(c < p) THEN [ line |-> line, column |-> column ]
    ELSE IF s[c + 1] = CH.cr
         THEN IF c + 1 < p /\ s[c + 2] = CH.lf
              THEN ErrorWalk(s, c + 2, p, line + 1, 1)
              ELSE ErrorWalk(s, c + 1, p, line + 1, 1)
    ELSE IF s[c + 1] = CH.lf THEN ErrorWalk(s, c + 1, p, line + 1, 1)
    ELSE ErrorWalk(s, c + 1, p, line, column + 1)

\* a variant of make_error that counts lines and columns from zero
make_error_zero_based(s, p, code, arg) ==
    LET q == IF p = NULL THEN Len(s) ELSE p
        w == ErrorWalk(s, 0, q, 0, 0)
    IN  [ error_line |-> w.line, error_column |-> w.column,
          error_code |-> code, error_arg |-> arg ]

make_error(s, p, code, arg) ==
    LET q == IF p = NULL THEN Len(s) ELSE p
        w == ErrorWalk(s, 0, q, 1, 1)
    IN  [ error_line |-> w.line, error_column |-> w.column,
          error_code |-> code, error_arg |-> arg ]

(***************************************************************************)
(* parse_null, parse_false, parse_true: the new p, or NULL and the error.  *)
(***************************************************************************)
\* a variant that does not look at the last byte of the literal
parse_null_three_bytes(s, p) ==
    IF ~has_remaining_characters(s, p, 4)
    THEN [ p |-> NULL, err |-> Err(p, "ERROR_UNEXPECTED_END", 0) ]
    ELSE IF s[p + 2] # CH.u \/ s[p + 3] # CH.l
    THEN [ p |-> NULL, err |-> Err(p, "ERROR_EXPECTED_NULL", 0) ]
    ELSE [ p |-> p + 4, err |-> NoErr ]

parse_null(s, p) ==
    IF ~has_remaining_characters(s, p, 4)
    THEN [ p |-> NULL, err |-> Err(p, "ERROR_UNEXPECTED_END", 0) ]
    ELSE IF s[p + 2] # CH.u \/ s[p + 3] # CH.l \/ s[p + 4] # CH.l
    THEN [ p |-> NULL, err |-> Err(p, "ERROR_EXPECTED_NULL", 0) ]
    ELSE [ p |-> p + 4, err |-> NoErr ]

parse_false(s, p) ==
    IF ~has_remaining_characters(s, p, 5)
    THEN [ p |-> NULL, err |-> Err(p, "ERROR_UNEXPECTED_END", 0) ]
    ELSE IF s[p + 2] # CH.a \/ s[p + 3] # CH.l \/ s[p + 4] # CH.s
            \/ s[p + 5] # CH.e
    THEN [ p |-> NULL, err |-> Err(p, "ERROR_EXPECTED_FALSE", 0) ]
    ELSE [ p |-> p + 5, err |-> NoErr ]

parse_true(s, p) ==
    IF ~has_remaining_characters(s, p, 4)
    THEN [ p |-> NULL, err |-> Err(p, "ERROR_UNEXPECTED_END", 0) ]
    ELSE IF s[p + 2] # CH.r \/ s[p + 3] # CH.u \/ s[p + 4] # CH.e
    THEN [ p |-> NULL, err |-> Err(p, "ERROR_EXPECTED_TRUE", 0) ]
    ELSE [ p |-> p + 4, err |-> NoErr ]

(***************************************************************************)
(* read_hex and write_utf8.                                                *)
(***************************************************************************)
\* a variant of the digit that reads 'A'..'F' as 0..5
HexDigit_upper_case_from_zero(c) ==
    IF c >= CH.zero /\ c <= CH.nine THEN c - CH.zero
    ELSE IF c >= CH.a /\ c <= CH.f THEN c - CH.a + 10
    ELSE IF c >= CH.A /\ c <= CH.F THEN c - CH.A
    ELSE NULL

HexDigit(c) ==
    IF c >= CH.zero /\ c <= CH.nine THEN c - CH.zero
    ELSE IF c >= CH.a /\ c <= CH.f THEN c - CH.a + 10
    ELSE IF c >= CH.A /\ c <= CH.F THEN c - CH.A + 10
    ELSE NULL

\* i counts the digits still to read; p has passed the digit when it is judged
RECURSIVE read_hex_loop(_, _, _, _)
read_hex_loop(s, p, v, i) ==
    IF i = 0 THEN [ p |-> p, u |-> v, err |-> NoErr ]
    ELSE LET c == HexDigit(s[p + 1])
         IN  IF c = NULL
             THEN [ p |-> NULL, u |-> 0,
                    err |-> Err(p + 1, "ERROR_INVALID_UNICODE_ESCAPE", 0) ]
             ELSE read_hex_loop(s, p + 1, v * 16 + c, i - 1)

read_hex(s, p) == read_hex_loop(s, p, 0, 4)

\* *end++ = c
PutByte(s, end, c) == [ s EXCEPT ![end + 1] = c % 256 ]

write_utf8(codepoint, s, end) ==
    IF codepoint < 128
    THEN [ s |-> PutByte(s, end, codepoint), end |-> end + 1 ]
    ELSE IF codepoint < 2048
    THEN [ s |-> PutByte(PutByte(s, end, 192 + (codepoint \div 64)),
                         end + 1, 128 + (codepoint % 64)),
           end |-> end + 2 ]
    ELSE IF codepoint < 65536
    THEN [ s |-> PutByte(PutByte(PutByte(s, end, 224 + (codepoint \div 4096)),
                                 end + 1, 128 + ((codepoint \div 64) % 64)),
                         end + 2, 128 + (codepoint % 64)),
           end |-> end + 3 ]
    ELSE [ s |-> PutByte(PutByte(PutByte(PutByte(s, end,
                                     240 + (codepoint \div 262144)),
                                 end + 1, 128 + ((codepoint \div 4096) % 64)),
                         end + 2, 128 + ((codepoint \div 64) % 64)),
                 end + 3, 128 + (codepoint % 64)),
           end |-> end + 4 ]

(***************************************************************************)
(* parse_string_slow.  The result: the new p (NULL on an error), the       *)
(* buffer as written so far, the two words written to tag[0], tag[1].      *)
(***************************************************************************)
StrFail(s, pos, code, arg) ==
    [ p |-> NULL, s |-> s, tag0 |-> 0, tag1 |-> 0, err |-> Err(pos, code, arg),
      crossed |-> FALSE ]

IsCont(c) == ~(c < 128 \/ c >= 192)

SimpleEscape(c) ==
    CASE c = CH.quote -> CH.quote
      [] c = CH.backslash -> CH.backslash
      [] c = CH.slash -> CH.slash
      [] c = CH.b -> 8
      [] c = CH.f -> 12
      [] c = CH.n -> 10
      [] c = CH.r -> 13
      [] c = CH.t -> 9
      [] OTHER -> NULL

\* case 'u', p past the 'u': the code unit read, a trail surrogate read
\* after a lead surrogate, and the code point written at end
parse_unicode_escape_any_trail(s, p, end) ==
    IF ~has_remaining_characters(s, p, 4)
    THEN [ p |-> NULL, s |-> s, end |-> end, err |-> Err(p, "ERROR_UNEXPECTED_END", 0) ]
    ELSE LET h == read_hex(s, p)
         IN  IF h.p = NULL
             THEN [ p |-> NULL, s |-> s, end |-> end, err |-> h.err ]
             ELSE IF h.u >= 55296 /\ h.u <= 56319
             THEN IF ~has_remaining_characters(s, h.p, 6)
                  THEN [ p |-> NULL, s |-> s, end |-> end,
                         err |-> Err(h.p, "ERROR_UNEXPECTED_END_OF_UTF16", 0) ]
                  ELSE IF s[h.p + 1] # CH.backslash \/ s[h.p + 2] # CH.u
                  THEN [ p |-> NULL, s |-> s, end |-> end,
                         err |-> Err(h.p, "ERROR_EXPECTED_U", 0) ]
                  ELSE LET g == read_hex(s, h.p + 2)
                       IN  IF g.p = NULL
                           THEN [ p |-> NULL, s |-> s, end |-> end, err |-> g.err ]
                           ELSE LET u == 65536 + ((h.u - 55296) * 1024
                                                  + ((g.u - 56320) % 1024))
                                    w == write_utf8(u, s, end)
                                IN  [ p |-> g.p, s |-> w.s, end |-> w.end,
                                      err |-> NoErr ]
             ELSE LET w == write_utf8(h.u, s, end)
                  IN  [ p |-> h.p, s |-> w.s, end |-> w.end, err |-> NoErr ]

\* a variant that takes a low surrogate with no high surrogate before it
\* for an error
parse_unicode_escape_low_rejected(s, p, end) ==
    IF ~has_remaining_characters(s, p, 4)
    THEN [ p |-> NULL, s |-> s, end |-> end, err |-> Err(p, "ERROR_UNEXPECTED_END", 0) ]
    ELSE LET h == read_hex(s, p)
         IN  IF h.p = NULL
             THEN [ p |-> NULL, s |-> s, end |-> end, err |-> h.err ]
             ELSE IF h.u >= 55296 /\ h.u <= 56319
             THEN IF ~has_remaining_characters(s, h.p, 6)
                  THEN [ p |-> NULL, s |-> s, end |-> end,
                         err |-> Err(h.p, "ERROR_UNEXPECTED_END_OF_UTF16", 0) ]
                  ELSE IF s[h.p + 1] # CH.backslash \/ s[h.p + 2] # CH.u
                  THEN [ p |-> NULL, s |-> s, end |-> end,
                         err |-> Err(h.p, "ERROR_EXPECTED_U", 0) ]
                  ELSE LET g == read_hex(s, h.p + 2)
                       IN  IF g.p = NULL
                           THEN [ p |-> NULL, s |-> s, end |-> end, err |-> g.err ]
                           ELSE IF g.u < 56320 \/ g.u > 57343
                           THEN [ p |-> NULL, s |-> s, end |-> end,
                                  err |-> Err(g.p,
                                      "ERROR_INVALID_UTF16_TRAIL_SURROGATE", 0) ]
                           ELSE LET u == 65536 + ((h.u - 55296) * 1024
                                                  + (g.u - 56320))
                                    w == write_utf8(u, s, end)
                                IN  [ p |-> g.p, s |-> w.s, end |-> w.end,
                                      err |-> NoErr ]
             ELSE IF h.u >= 56320 /\ h.u <= 57343
             THEN [ p |-> NULL, s |-> s, end |-> end,
                    err |-> Err(h.p, "ERROR_INVALID_UTF16_TRAIL_SURROGATE", 0) ]
             ELSE LET w == write_utf8(h.u, s, end)
                  IN  [ p |-> h.p, s |-> w.s, end |-> w.end, err |-> NoErr ]

parse_unicode_escape(s, p, end) ==
    IF ~has_remaining_characters(s, p, 4)
    THEN [ p |-> NULL, s |-> s, end |-> end, err |-> Err(p, "ERROR_UNEXPECTED_END", 0) ]
    ELSE LET h == read_hex(s, p)
         IN  IF h.p = NULL
             THEN [ p |-> NULL, s |-> s, end |-> end, err |-> h.err ]
             ELSE IF h.u >= 55296 /\ h.u <= 56319
             THEN IF ~has_remaining_characters(s, h.p, 6)
                  THEN [ p |-> NULL, s |-> s, end |-> end,
                         err |-> Err(h.p, "ERROR_UNEXPECTED_END_OF_UTF16", 0) ]
                  ELSE IF s[h.p + 1] # CH.backslash \/ s[h.p + 2] # CH.u
                  THEN [ p |-> NULL, s |-> s, end |-> end,
                         err |-> Err(h.p, "ERROR_EXPECTED_U", 0) ]
                  ELSE LET g == read_hex(s, h.p + 2)
                       IN  IF g.p = NULL
                           THEN [ p |-> NULL, s |-> s, end |-> end, err |-> g.err ]
                           ELSE IF g.u < 56320 \/ g.u > 57343
                           THEN [ p |-> NULL, s |-> s, end |-> end,
                                  err |-> Err(g.p,
                                      "ERROR_INVALID_UTF16_TRAIL_SURROGATE", 0) ]
                           ELSE LET u == 65536 + ((h.u - 55296) * 1024
                                                  + (g.u - 56320))
                                    w == write_utf8(u, s, end)
                                IN  [ p |-> g.p, s |-> w.s, end |-> w.end,
                                      err |-> NoErr ]
             ELSE LET w == write_utf8(h.u, s, end)
                  IN  [ p |-> h.p, s |-> w.s, end |-> w.end, err |-> NoErr ]

\* the for (;;) loop, entered with the read cursor p and the write cursor
\* end; crossed records that end was past p at the head of this or of an
\* earlier iteration
RECURSIVE parse_string_slow_loop(_, _, _, _, _)

\* after case 'u' of an iteration on the buffer s: the error of the escape,
\* or the next iteration with what the escape e read and wrote
after_unicode_escape(e, s, start, crossed) ==
    IF e.p = NULL
    THEN [ StrFail(s, e.err.pos, e.err.code, e.err.arg) EXCEPT !.crossed = crossed ]
    ELSE parse_string_slow_loop(e.s, e.p, e.end, start, crossed)

parse_string_slow_loop(s, p, end, start, before) ==
    LET crossed == before \/ end > p
        fail(pos, code, arg) ==
            [ StrFail(s, pos, code, arg) EXCEPT !.crossed = crossed ]
    IN
    IF p >= Len(s) THEN fail(p, "ERROR_UNEXPECTED_END", 0)
    ELSE IF s[p + 1] >= 0 /\ s[p + 1] < 32
    THEN fail(p, "ERROR_ILLEGAL_CODEPOINT", s[p + 1])
    ELSE IF s[p + 1] = CH.quote
    THEN [ p |-> p + 1, s |-> PutByte(s, end, 0),
           tag0 |-> start, tag1 |-> end, err |-> NoErr, crossed |-> crossed ]
    ELSE IF s[p + 1] = CH.backslash
    THEN \* ++p
         IF p + 1 >= Len(s) THEN fail(p + 1, "ERROR_UNEXPECTED_END", 0)
         ELSE IF SimpleEscape(s[p + 2]) # NULL
         THEN parse_string_slow_loop(
                  PutByte(s, end, SimpleEscape(s[p + 2])), p + 2, end + 1, start, crossed)
         ELSE IF s[p + 2] = CH.u
         THEN \* ++p
              after_unicode_escape(parse_unicode_escape(s, p + 2, end),
                                   s, start, crossed)
         ELSE fail(p + 1, "ERROR_UNKNOWN_ESCAPE", 0)
    ELSE \* validate UTF-8
         LET c0 == s[p + 1] IN
         IF c0 < 128
         THEN parse_string_slow_loop(PutByte(s, end, c0), p + 1, end + 1, start, crossed)
         ELSE IF c0 < 224
         THEN IF ~has_remaining_characters(s, p, 2)
              THEN fail(p, "ERROR_UNEXPECTED_END", 0)
              ELSE IF ~IsCont(s[p + 2]) THEN fail(p + 1, "ERROR_INVALID_UTF8", 0)
              ELSE parse_string_slow_loop(
                       PutByte(PutByte(s, end, c0), end + 1, s[p + 2]),
                       p + 2, end + 2, start, crossed)
         ELSE IF c0 < 240
         THEN IF ~has_remaining_characters(s, p, 3)
              THEN fail(p, "ERROR_UNEXPECTED_END", 0)
              ELSE IF ~IsCont(s[p + 2]) THEN fail(p + 1, "ERROR_INVALID_UTF8", 0)
              ELSE IF ~IsCont(s[p + 3]) THEN fail(p + 2, "ERROR_INVALID_UTF8", 0)
              ELSE parse_string_slow_loop(
                       PutByte(PutByte(PutByte(s, end, c0), end + 1, s[p + 2]),
                               end + 2, s[p + 3]),
                       p + 3, end + 3, start, crossed)
         ELSE IF c0 < 248
         THEN IF ~has_remaining_characters(s, p, 4)
              THEN fail(p, "ERROR_UNEXPECTED_END", 0)
              ELSE IF ~IsCont(s[p + 2]) THEN fail(p + 1, "ERROR_INVALID_UTF8", 0)
              ELSE IF ~IsCont(s[p + 3]) THEN fail(p + 2, "ERROR_INVALID_UTF8", 0)
              ELSE IF ~IsCont(s[p + 4]) THEN fail(p + 3, "ERROR_INVALID_UTF8", 0)
              ELSE parse_string_slow_loop(
                       PutByte(PutByte(PutByte(PutByte(s, end, c0), end + 1, s[p + 2]),
                                       end + 2, s[p + 3]),
                               end + 3, s[p + 4]),
                       p + 4, end + 4, start, crossed)
         ELSE fail(p, "ERROR_INVALID_UTF8", 0)

\* a variant of parse_string_slow that leaves the byte at end as it was
parse_string_slow_unterminated(s, p, start) ==
    LET r == parse_string_slow_loop(s, p, p, start, FALSE) IN
    IF r.p = NULL THEN r
    ELSE [ r EXCEPT !.s = [ r.s EXCEPT ![r.tag1 + 1] = s[r.tag1 + 1] ] ]

\* a variant of parse_string_slow whose write cursor starts a byte late
parse_string_slow_end_ahead(s, p, start) ==
    parse_string_slow_loop(s, p, p + 1, start, FALSE)

parse_string_slow(s, p, start) == parse_string_slow_loop(s, p, p, start, FALSE)

(***************************************************************************)
(* parse_string: the four-byte unrolled loop, the byte loop, found:.       *)
(***************************************************************************)
\* the while loop: p at the first byte that is not plain, or where fewer
\* than four bytes remain
RECURSIVE ScanUnrolled(_, _)
ScanUnrolled(s, p) ==
    IF Len(s) - p >= 4
    THEN IF ~is_plain_string_character(s[p + 1]) THEN [ p |-> p, found |-> TRUE ]
         ELSE IF ~is_plain_string_character(s[p + 2]) THEN [ p |-> p + 1, found |-> TRUE ]
         ELSE IF ~is_plain_string_character(s[p + 3]) THEN [ p |-> p + 2, found |-> TRUE ]
         ELSE IF ~is_plain_string_character(s[p + 4]) THEN [ p |-> p + 3, found |-> TRUE ]
         ELSE ScanUnrolled(s, p + 4)
    ELSE [ p |-> p, found |-> FALSE ]

\* the for (;;) loop: p at the first byte that is not plain; eof when none
RECURSIVE ScanBytes(_, _)
ScanBytes(s, p) ==
    IF p >= Len(s) THEN [ p |-> p, eof |-> TRUE ]
    ELSE IF ~is_plain_string_character(s[p + 1]) THEN [ p |-> p, eof |-> FALSE ]
    ELSE ScanBytes(s, p + 1)

\* a variant of the label found: that drops the byte from the error
StringFound_without_argument(s, p, start) ==
    IF s[p + 1] = CH.quote
    THEN [ p |-> p + 1, s |-> PutByte(s, p, 0),
           tag0 |-> start, tag1 |-> p, err |-> NoErr, crossed |-> FALSE ]
    ELSE IF s[p + 1] >= 0 /\ s[p + 1] < 32
    THEN StrFail(s, p, "ERROR_ILLEGAL_CODEPOINT", 0)
    ELSE parse_string_slow(s, p, start)

\* a variant of the label found: that writes the NUL over the opening quote
StringFound_nul_at_opening_quote(s, p, start) ==
    IF s[p + 1] = CH.quote
    THEN [ p |-> p + 1, s |-> PutByte(s, start - 1, 0),
           tag0 |-> start, tag1 |-> p, err |-> NoErr, crossed |-> FALSE ]
    ELSE IF s[p + 1] >= 0 /\ s[p + 1] < 32
    THEN StrFail(s, p, "ERROR_ILLEGAL_CODEPOINT", s[p + 1])
    ELSE parse_string_slow(s, p, start)

\* from the label found:
StringFound(s, p, start) ==
    IF s[p + 1] = CH.quote
    THEN [ p |-> p + 1, s |-> PutByte(s, p, 0),
           tag0 |-> start, tag1 |-> p, err |-> NoErr, crossed |-> FALSE ]
    ELSE IF s[p + 1] >= 0 /\ s[p + 1] < 32
    THEN StrFail(s, p, "ERROR_ILLEGAL_CODEPOINT", s[p + 1])
    ELSE parse_string_slow(s, p, start)

\* p is at the opening quote
parse_string(s, p) ==
    LET start == p + 1
        u == ScanUnrolled(s, p + 1)
    IN  IF u.found THEN StringFound(s, u.p, start)
        ELSE LET b == ScanBytes(s, u.p)
             IN  IF b.eof THEN StrFail(s, b.p, "ERROR_UNEXPECTED_END", 0)
                 ELSE StringFound(s, b.p, start)

(***************************************************************************)
(* double arithmetic of parse_number.  A double is modelled as the decimal *)
(* m * 10^x with a significand m that stops growing once it holds all the  *)
(* digits an int can (later digits only raise x), or as an infinity or a   *)
(* NaN; neg is the sign.                                                   *)
(***************************************************************************)
INT_MAX == 2147483647

RECURSIVE NumDigits(_)
NumDigits(m) == IF m < 10 THEN 1 ELSE 1 + NumDigits(m \div 10)

\* the largest and the smallest decimal exponent of a finite nonzero double
DBL_MAX_10_EXP == 308
DBL_MIN_10_EXP == 0 - 323

DNormal(m, x, neg) ==
    IF m = 0 THEN [ m |-> 0, x |-> 0, inf |-> FALSE, nan |-> FALSE, neg |-> neg ]
    ELSE IF NumDigits(m) + x - 1 > DBL_MAX_10_EXP
    THEN [ m |-> 0, x |-> 0, inf |-> TRUE, nan |-> FALSE, neg |-> neg ]
    ELSE IF NumDigits(m) + x - 1 < DBL_MIN_10_EXP - 1
    THEN [ m |-> 0, x |-> 0, inf |-> FALSE, nan |-> FALSE, neg |-> neg ]
    ELSE [ m |-> m, x |-> x, inf |-> FALSE, nan |-> FALSE, neg |-> neg ]

\* d = i
DFromInt(i) == DNormal(i, 0, FALSE)

\* d = 10.0 * d + digit
DMulAdd(d, digit) ==
    IF d.inf \/ d.nan THEN d
    ELSE IF d.x > 0 \/ d.m > INT_MAX \div 10 - 9 THEN DNormal(d.m, d.x + 1, d.neg)
    ELSE DNormal(10 * d.m + digit, d.x, d.neg)

DIsZero(d) == ~d.inf /\ ~d.nan /\ d.m = 0

\* pow10(exponent): an infinity, 0.0, or the table's 10^exponent
pow10(exponent) ==
    IF exponent > 308 THEN [ kind |-> "inf", e |-> 0 ]
    ELSE IF exponent < -323 THEN [ kind |-> "zero", e |-> 0 ]
    ELSE [ kind |-> "table", e |-> exponent ]

\* d *= pow10(exponent)
DTimesPow10(d, exponent) ==
    LET pw == pow10(exponent) IN
    IF d.nan THEN d
    ELSE IF pw.kind = "inf"
    THEN IF DIsZero(d) THEN [ d EXCEPT !.nan = TRUE ]
         ELSE [ m |-> 0, x |-> 0, inf |-> TRUE, nan |-> FALSE, neg |-> d.neg ]
    ELSE IF pw.kind = "zero"
    THEN IF d.inf THEN [ d EXCEPT !.nan = TRUE, !.inf = FALSE ]
         ELSE [ m |-> 0, x |-> 0, inf |-> FALSE, nan |-> FALSE, neg |-> d.neg ]
    ELSE IF d.inf THEN d
    ELSE DNormal(d.m, d.x + pw.e, d.neg)

DNeg(d) == [ d EXCEPT !.neg = ~d.neg ]

(***************************************************************************)
(* parse_number, up to the reserve of the payload word: the scan of the    *)
(* token.  A scan state is p (NULL after an error), i, d, try_double and   *)
(* exponent.                                                               *)
(***************************************************************************)
IsDigit(c) == c >= CH.zero /\ c <= CH.nine

NumFail(pos, code) ==
    [ p |-> NULL, i |-> 0, d |-> DFromInt(0), try_double |-> FALSE,
      exponent |-> 0, err |-> Err(pos, code, 0) ]

\* where a do-while over digits that starts at the digit at p ends: the
\* offset of the first byte after p that is no digit, the length of s when
\* every byte after p is a digit (at_eof then ends the loop with an error)
DigitsEnd(s, p) ==
    LET ends == { k \in p + 1 .. Len(s) : k = Len(s) \/ ~IsDigit(s[k + 1]) }
    IN  CHOOSE k \in ends : \A j \in ends : k <= j

\* a variant of the loop body that goes on in int up to INT_MAX / 10
NumIntDigit_late_promotion(st, c) ==
    LET digit == c - CH.zero
        promote == ~st.try_double /\ st.i > INT_MAX \div 10
        td == st.try_double \/ promote
        d1 == IF promote THEN DFromInt(st.i) ELSE st.d
    IN  [ i |-> IF td THEN st.i ELSE 10 * st.i + digit,
          d |-> IF td THEN DMulAdd(d1, digit) ELSE d1,
          try_double |-> td ]

\* a variant of the loop body that goes on in int up to INT_MAX / 10 - 1
NumIntDigit_promotion_one_short(st, c) ==
    LET digit == c - CH.zero
        promote == ~st.try_double /\ st.i > INT_MAX \div 10 - 1
        td == st.try_double \/ promote
        d1 == IF promote THEN DFromInt(st.i) ELSE st.d
    IN  [ i |-> IF td THEN st.i ELSE 10 * st.i + digit,
          d |-> IF td THEN DMulAdd(d1, digit) ELSE d1,
          try_double |-> td ]

\* the body of the do-while of the integer part after its at_eof check, for
\* the digit c: st is i, d and try_double
NumIntDigit(st, c) ==
    LET digit == c - CH.zero
        promote == ~st.try_double /\ st.i > INT_MAX \div 10 - 9
        td == st.try_double \/ promote
        d1 == IF promote THEN DFromInt(st.i) ELSE st.d
    IN  [ i |-> IF td THEN st.i ELSE 10 * st.i + digit,
          d |-> IF td THEN DMulAdd(d1, digit) ELSE d1,
          try_double |-> td ]

\* the bodies for the digits at the offsets lo .. hi, one after the other
\* (the run is halved, and the first half is worked out before the second
\* is begun, so that a run of hundreds of digits nests no deeper than one
\* of a few)
RECURSIVE NumIntDigits_late_promotion(_, _, _, _)
NumIntDigits_late_promotion(s, lo, hi, st) ==
    IF lo = hi THEN NumIntDigit_late_promotion(st, s[lo + 1])
    ELSE LET mid == (lo + hi) \div 2
             half == NumIntDigits_late_promotion(s, lo, mid, st)
         IN  IF half.try_double \in BOOLEAN
             THEN NumIntDigits_late_promotion(s, mid + 1, hi, half)
             ELSE st

RECURSIVE NumIntDigits(_, _, _, _)
NumIntDigits(s, lo, hi, st) ==
    IF lo = hi THEN NumIntDigit(st, s[lo + 1])
    ELSE LET mid == (lo + hi) \div 2
             half == NumIntDigits(s, lo, mid, st)
         IN  IF half.try_double \in BOOLEAN
             THEN NumIntDigits(s, mid + 1, hi, half)
             ELSE st

\* a variant of the integer loop that goes on in int up to INT_MAX / 10
NumIntLoop_late_promotion(s, p, c, i, d, try_double) ==
    LET q == DigitsEnd(s, p) IN
    IF at_eof(s, q) THEN NumFail(q, "ERROR_UNEXPECTED_END")
    ELSE LET r == NumIntDigits_late_promotion(s, p, q - 1,
                      [ i |-> i, d |-> d, try_double |-> try_double ])
         IN  [ p |-> q, i |-> r.i, d |-> r.d, try_double |-> r.try_double,
               exponent |-> 0, err |-> NoErr ]

\* the do-while of the integer part; c is the digit at p: it ends at the
\* first byte that is no digit, or in the error of at_eof
NumIntLoop(s, p, c, i, d, try_double) ==
    LET q == DigitsEnd(s, p) IN
    IF at_eof(s, q) THEN NumFail(q, "ERROR_UNEXPECTED_END")
    ELSE LET r == NumIntDigits(s, p, q - 1,
                      [ i |-> i, d |-> d, try_double |-> try_double ])
         IN  [ p |-> q, i |-> r.i, d |-> r.d, try_double |-> r.try_double,
               exponent |-> 0, err |-> NoErr ]

\* p is past the sign
NumInt(s, p) ==
    IF s[p + 1] = CH.zero
    THEN IF at_eof(s, p + 1) THEN NumFail(p + 1, "ERROR_UNEXPECTED_END")
         ELSE [ p |-> p + 1, i |-> 0, d |-> DFromInt(0), try_double |-> FALSE,
                exponent |-> 0, err |-> NoErr ]
    ELSE IF ~IsDigit(s[p + 1]) THEN NumFail(p, "ERROR_INVALID_NUMBER")
    ELSE NumIntLoop(s, p, s[p + 1], 0, DFromInt(0), FALSE)

\* the bodies of the do-while of the fraction for the digits at the offsets
\* lo .. hi, one after the other: d = d * 10 + (c - '0')
RECURSIVE NumFracDigits(_, _, _, _)
NumFracDigits(s, lo, hi, d) ==
    IF lo = hi THEN DMulAdd(d, s[lo + 1] - CH.zero)
    ELSE LET mid == (lo + hi) \div 2
             half == NumFracDigits(s, lo, mid, d)
         IN  IF half.nan \in BOOLEAN
             THEN NumFracDigits(s, mid + 1, hi, half)
             ELSE d

\* the do-while of the fraction; c is the digit at p: --exponent for every
\* digit
NumFracLoop(s, p, c, d, exponent) ==
    LET q == DigitsEnd(s, p) IN
    IF at_eof(s, q) THEN NumFail(q, "ERROR_UNEXPECTED_END")
    ELSE [ p |-> q, i |-> 0, d |-> NumFracDigits(s, p, q - 1, d),
           try_double |-> TRUE, exponent |-> exponent - (q - p), err |-> NoErr ]

\* a variant of the fraction that takes a '.' with no digit after it
NumFrac_digits_optional(s, st) ==
    IF st.p = NULL \/ s[st.p + 1] # CH.dot THEN st
    ELSE LET d == IF ~st.try_double THEN DFromInt(st.i) ELSE st.d
             p == st.p + 1
         IN  IF at_eof(s, p) THEN NumFail(p, "ERROR_UNEXPECTED_END")
             ELSE IF ~IsDigit(s[p + 1])
             THEN [ p |-> p, i |-> st.i, d |-> d, try_double |-> TRUE,
                    exponent |-> 0, err |-> NoErr ]
             ELSE [ NumFracLoop(s, p, s[p + 1], d, 0) EXCEPT !.i = st.i ]

NumFrac(s, st) ==
    IF st.p = NULL \/ s[st.p + 1] # CH.dot THEN st
    ELSE LET d == IF ~st.try_double THEN DFromInt(st.i) ELSE st.d
             p == st.p + 1
         IN  IF at_eof(s, p) THEN NumFail(p, "ERROR_UNEXPECTED_END")
             ELSE IF ~IsDigit(s[p + 1]) THEN NumFail(p, "ERROR_INVALID_NUMBER")
             ELSE [ NumFracLoop(s, p, s[p + 1], d, 0) EXCEPT !.i = st.i ]

\* the body of the for (;;) of the exponent digits before its ++p, for the
\* digit c
NumExpDigit(exp, c) ==
    LET digit == c - CH.zero
    IN  IF exp > (INT_MAX - digit) \div 10 THEN INT_MAX
        ELSE 10 * exp + digit

\* the bodies for the digits at the offsets lo .. hi, one after the other
RECURSIVE NumExpDigits(_, _, _, _)
NumExpDigits(s, lo, hi, exp) ==
    IF lo = hi THEN NumExpDigit(exp, s[lo + 1])
    ELSE NumExpDigits(s, lo + 1, hi, NumExpDigit(exp, s[lo + 1]))

\* the for (;;) of the exponent digits; c is the digit at p: it ends at the
\* first byte that is no digit, or in the error of at_eof
NumExpLoop(s, p, c, exp) ==
    LET q == DigitsEnd(s, p) IN
    IF at_eof(s, q) THEN [ p |-> NULL, exp |-> 0, pos |-> q ]
    ELSE [ p |-> q, exp |-> NumExpDigits(s, p, q - 1, exp), pos |-> NULL ]

NumExp(s, st) ==
    IF st.p = NULL \/ (s[st.p + 1] # CH.e /\ s[st.p + 1] # CH.E) THEN st
    ELSE LET d == IF ~st.try_double THEN DFromInt(st.i) ELSE st.d
             p == st.p + 1
         IN  IF at_eof(s, p) THEN NumFail(p, "ERROR_UNEXPECTED_END")
             ELSE LET signed == s[p + 1] = CH.minus \/ s[p + 1] = CH.plus
                      negativeExponent == s[p + 1] = CH.minus
                      q == IF signed THEN p + 1 ELSE p
                  IN  IF at_eof(s, q) THEN NumFail(q, "ERROR_UNEXPECTED_END")
                      ELSE IF ~IsDigit(s[q + 1])
                      THEN NumFail(q, "ERROR_MISSING_EXPONENT")
                      ELSE LET r == NumExpLoop(s, q, s[q + 1], 0)
                           IN  IF r.p = NULL
                               THEN NumFail(r.pos, "ERROR_UNEXPECTED_END")
                               ELSE [ p |-> r.p, i |-> st.i, d |-> d,
                                      try_double |-> TRUE,
                                      exponent |-> st.exponent
                                          + (IF negativeExponent THEN -r.exp
                                             ELSE r.exp),
                                      err |-> NoErr ]

\* the final scaling and the sign
NumFinish(st, negative) ==
    IF st.p = NULL THEN st
    ELSE LET d1 == IF st.exponent # 0 /\ ~DIsZero(st.d)
                   THEN DTimesPow10(st.d, st.exponent) ELSE st.d
         IN  [ st EXCEPT !.d = IF negative /\ st.try_double THEN DNeg(d1) ELSE d1,
                         !.i = IF negative /\ ~st.try_double THEN -st.i ELSE st.i ]

\* the scan of parse_number: p is at the first byte of the token
NumScan(s, p) ==
    LET negative == s[p + 1] = CH.minus
        p0 == IF negative THEN p + 1 ELSE p
    IN  IF negative /\ at_eof(s, p0) THEN NumFail(p0, "ERROR_UNEXPECTED_END")
        ELSE NumFinish(NumExp(s, NumFrac(s, NumInt(s, p0))), negative)

(***************************************************************************)
(* single_allocation: the arena.  arena is the caller's buffer, a function *)
(* on 0 .. existing_buffer_size - 1; the allocator the parser uses spans   *)
(* the words [structure, structure_end) = [0, input length).  The scratch  *)
(* stack grows up from stack_bottom = 0, the AST down from structure_end.  *)
(* A word nothing has written holds UNWRITTEN.                             *)
(***************************************************************************)
UNWRITTEN == "unwritten"

\* single_allocation::make_allocator
\* a variant of make_allocator without the size check
make_allocator_unchecked(existing_buffer_size, input_document_size_in_bytes) ==
    [ succeeded |-> TRUE,
      structure_end |-> input_document_size_in_bytes,
      write_cursor |-> input_document_size_in_bytes ]

make_allocator(existing_buffer_size, input_document_size_in_bytes) ==
    IF existing_buffer_size < input_document_size_in_bytes
    THEN [ succeeded |-> FALSE, structure_end |-> 0, write_cursor |-> 0 ]
    ELSE [ succeeded |-> TRUE,
           structure_end |-> input_document_size_in_bytes,
           write_cursor |-> input_document_size_in_bytes ]

\* a store through a size_t*: a store outside the buffer changes nothing here
\* and is recorded by OutOfArena
Store(a, i, w) == IF i \in DOMAIN a THEN [ a EXCEPT ![i] = w ] ELSE a

\* the word indices among idx that lie outside the allocator's [0, n)
OutOfArena(idx, n) == { i \in idx : i < 0 \/ i >= n }

\* allocator::get_write_offset, allocator::get_write_pointer_of
get_write_offset(structure_end, write_cursor) == structure_end - write_cursor

get_write_pointer_of(structure_end, v) == structure_end - v

\* a variant of allocator::reserve that takes one word more than asked
allocator_reserve_one_more(write_cursor, size) == write_cursor - size - 1

\* allocator::reserve: the new write_cursor, which is the pointer returned
allocator_reserve(write_cursor, size) == write_cursor - size

\* a variant of stack_head::push that reports failure once the stack is not empty
stack_push_failing(a, stack_top, element) ==
    IF stack_top > 0
    THEN [ arena |-> a, stack_top |-> stack_top, ok |-> FALSE ]
    ELSE [ arena |-> Store(a, stack_top, element), stack_top |-> stack_top + 1,
           ok |-> TRUE ]

\* stack_head::push: the word is stored at stack_top, which moves up by one
stack_push(a, stack_top, element) ==
    [ arena |-> Store(a, stack_top, element), stack_top |-> stack_top + 1,
      ok |-> TRUE ]

\* stack_head::reserve: the new stack_top; the pointer returned is the old one
stack_reserve(stack_top, amount) == stack_top + amount

(***************************************************************************)
(* install_array: the frame [array_base, array_end) of the scratch stack   *)
(* becomes a record on the AST stack.  Words are read and written one by   *)
(* one, as the loop does, the record possibly lying over the frame.        *)
(***************************************************************************)
\* the loop's variables are carried as one record: the arena, array_end, out
\* a variant of the loop that measures the element from the arena start
RECURSIVE install_array_loop_from_arena_start(_, _, _, _)
install_array_loop_from_arena_start(l, array_base, new_base, structure_end) ==
    IF ~(l.array_end > array_base) THEN l
    ELSE LET element == l.arena[l.array_end - 1]
             element_ptr == structure_end - get_element_value(element)
         IN  install_array_loop_from_arena_start(
                 [ arena |-> Store(l.arena, l.out - 1,
                                   make_element(get_element_tag(element),
                                                element_ptr)),
                   array_end |-> l.array_end - 1,
                   out |-> l.out - 1 ],
                 array_base, new_base, structure_end)

RECURSIVE install_array_loop(_, _, _, _)
install_array_loop(l, array_base, new_base, structure_end) ==
    IF ~(l.array_end > array_base) THEN l
    ELSE LET element == l.arena[l.array_end - 1]
             element_ptr == structure_end - get_element_value(element)
         IN  install_array_loop(
                 [ arena |-> Store(l.arena, l.out - 1,
                                   make_element(get_element_tag(element),
                                                element_ptr - new_base)),
                   array_end |-> l.array_end - 1,
                   out |-> l.out - 1 ],
                 array_base, new_base, structure_end)

\* a variant of the copy that goes from the frame's first word to its last
RECURSIVE install_array_loop_forward(_, _, _, _)
install_array_loop_forward(l, array_end, new_base, structure_end) ==
    IF ~(l.array_base < array_end) THEN l
    ELSE LET element == l.arena[l.array_base]
             element_ptr == structure_end - get_element_value(element)
         IN  install_array_loop_forward(
                 [ arena |-> Store(l.arena, l.out,
                                   make_element(get_element_tag(element),
                                                element_ptr - new_base)),
                   array_base |-> l.array_base + 1,
                   out |-> l.out + 1 ],
                 array_end, new_base, structure_end)

install_array_forward(a, array_base, array_end, write_cursor, structure_end) ==
    LET length == array_end - array_base
        new_base == allocator_reserve(write_cursor, length + 1)
        r == install_array_loop_forward([ arena |-> a, array_base |-> array_base,
                                          out |-> new_base + 1 ],
                                        array_end, new_base, structure_end)
    IN  [ arena |-> Store(r.arena, new_base, length),
          write_cursor |-> new_base,
          written |-> new_base .. (new_base + length),
          ok |-> TRUE ]

install_array(a, array_base, array_end, write_cursor, structure_end) ==
    LET length == array_end - array_base
        new_base == allocator_reserve(write_cursor, length + 1)
        r == install_array_loop([ arena |-> a, array_end |-> array_end,
                                  out |-> new_base + length + 1 ],
                                array_base, new_base, structure_end)
    IN  [ arena |-> Store(r.arena, r.out - 1, length),
          write_cursor |-> new_base,
          written |-> new_base .. (new_base + length),
          ok |-> TRUE ]

(***************************************************************************)
(* install_object: std::sort of the frame's key records when the member    *)
(* count exceeds the threshold, then the copy.  std::sort is not stable:   *)
(* ties is the order it leaves records of equal keys in ("kept": as they   *)
(* were, "reversed": the other way round).                                 *)
(***************************************************************************)
\* memcmp(s + i, s + j, len) < 0, bytes compared as unsigned char
RECURSIVE memcmp_less(_, _, _, _)
memcmp_less(s, i, j, len) ==
    IF len = 0 THEN FALSE
    ELSE IF s[i + 1] < s[j + 1] THEN TRUE
    ELSE IF s[i + 1] > s[j + 1] THEN FALSE
    ELSE memcmp_less(s, i + 1, j + 1, len - 1)

\* a variant of the comparator on two records that puts longer keys first
object_key_comparator_longer_first(s, lhs, rhs) ==
    LET lhs_length == lhs.key_end - lhs.key_start
        rhs_length == rhs.key_end - rhs.key_start
    IN  IF lhs_length > rhs_length THEN TRUE
        ELSE IF lhs_length < rhs_length THEN FALSE
        ELSE memcmp_less(s, lhs.key_start, rhs.key_start, lhs_length)

\* object_key_comparator on two object_key_record
object_key_comparator(s, lhs, rhs) ==
    LET lhs_length == lhs.key_end - lhs.key_start
        rhs_length == rhs.key_end - rhs.key_start
    IN  IF lhs_length < rhs_length THEN TRUE
        ELSE IF lhs_length > rhs_length THEN FALSE
        ELSE memcmp_less(s, lhs.key_start, rhs.key_start, lhs_length)

\* the frame's words as object_key_record
FrameRecords(a, object_base, length) ==
    [ k \in 1 .. length |->
        [ key_start |-> a[object_base + 3 * (k - 1)],
          key_end |-> a[object_base + 3 * (k - 1) + 1],
          value |-> a[object_base + 3 * (k - 1) + 2] ] ]

\* where r goes in the sorted sequence acc: after the records that order
\* before it, and after (kept) or before (reversed) those it ties with
InsertAt(s, acc, r, ties) ==
    1 + Cardinality({ k \in 1 .. Len(acc) :
                        /\ ~object_key_comparator(s, r, acc[k])
                        /\ (ties = "kept" \/ object_key_comparator(s, acc[k], r)) })

RECURSIVE SortedRecords(_, _, _, _)
SortedRecords(s, recs, acc, ties) ==
    IF Len(acc) = Len(recs) THEN acc
    ELSE LET r == recs[Len(acc) + 1]
             at == InsertAt(s, acc, r, ties)
         IN  SortedRecords(s, recs,
                 SubSeq(acc, 1, at - 1) \o << r >> \o SubSeq(acc, at, Len(acc)),
                 ties)

\* a variant of the sort that moves the two key words and leaves the value
\* words where they were
std_sort_keys_only(a, s, object_base, length, ties) ==
    LET sorted == SortedRecords(s, FrameRecords(a, object_base, length), << >>, ties)
    IN  [ i \in DOMAIN a |->
            IF i >= object_base /\ i < object_base + 3 * length
            THEN LET r == sorted[((i - object_base) \div 3) + 1]
                     f == (i - object_base) % 3
                 IN  IF f = 0 THEN r.key_start
                     ELSE IF f = 1 THEN r.key_end ELSE a[i]
            ELSE a[i] ]

\* std::sort(object_base, object_end, object_key_comparator(input))
std_sort(a, s, object_base, length, ties) ==
    LET sorted == SortedRecords(s, FrameRecords(a, object_base, length), << >>, ties)
    IN  [ i \in DOMAIN a |->
            IF i >= object_base /\ i < object_base + 3 * length
            THEN LET r == sorted[((i - object_base) \div 3) + 1]
                     f == (i - object_base) % 3
                 IN  IF f = 0 THEN r.key_start
                     ELSE IF f = 1 THEN r.key_end ELSE r.value
            ELSE a[i] ]

\* the loop's variables are carried as one record: the arena, object_end, out
RECURSIVE install_object_loop(_, _, _, _)
install_object_loop(l, object_base, new_base, structure_end) ==
    IF ~(l.object_end > object_base) THEN l
    ELSE LET element == l.arena[l.object_end - 1]
             element_ptr == structure_end - get_element_value(element)
             a1 == Store(l.arena, l.out - 1,
                       make_element(get_element_tag(element), element_ptr - new_base))
             a2 == Store(a1, l.out - 2, a1[l.object_end - 2])
             a3 == Store(a2, l.out - 3, a2[l.object_end - 3])
         IN  install_object_loop(
                 [ arena |-> a3, object_end |-> l.object_end - 3, out |-> l.out - 3 ],
                 object_base, new_base, structure_end)

install_object(a, s, object_base, object_end, write_cursor, structure_end, ties) ==
    LET length_times_3 == object_end - object_base
        length == length_times_3 \div 3
        a0 == IF should_binary_search(length)
              THEN std_sort(a, s, object_base, length, ties) ELSE a
        new_base == allocator_reserve(write_cursor, length_times_3 + 1)
        r == install_object_loop([ arena |-> a0, object_end |-> object_end,
                                   out |-> new_base + length_times_3 + 1 ],
                                 object_base, new_base, structure_end)
    IN  [ arena |-> Store(r.arena, r.out - 1, length),
          write_cursor |-> new_base,
          written |-> new_base .. (new_base + length_times_3),
          ok |-> TRUE ]

(***************************************************************************)
(* The bytes of the input that a step touches.  Each operator below goes   *)
(* through the reads and the writes of the function it is named after, in  *)
(* their order and behind the same guards, and gives the highest offset    *)
(* among them (NULL when there is none); those of the string scan also     *)
(* give where the scan ends.  Between the scans of one step nothing at or  *)
(* after the read cursor is written, so the reads are those of input.      *)
(***************************************************************************)
Hi(a, b) == IF a > b THEN a ELSE b

\* *p at the offset k; no byte is modelled past the end of the buffer, and
\* 0 stands for whatever a read there would find
ByteAt(s, k) == IF k >= 0 /\ k < Len(s) THEN s[k + 1] ELSE 0

\* skip_whitespace from p: it reads every byte up to the one it stops at
skip_whitespace_reach(s, p) ==
    IF p = Len(s) THEN NULL
    ELSE LET q == skip_whitespace(s, p) IN
         IF q = NULL THEN Len(s) - 1 ELSE q

\* parse_null, parse_true (n = 4), parse_false (n = 5): p[1] .. p[n - 1]
\* once has_remaining_characters allows it, p[0] by the switch before
literal_reach(s, p, n) ==
    IF ~has_remaining_characters(s, p, n) THEN p ELSE p + n - 1

\* parse_number at p: *p after every ++p that at_eof lets through
number_exponent_reach(s, b) ==
    IF ByteAt(s, b) # CH.e /\ ByteAt(s, b) # CH.E THEN b
    ELSE IF at_eof(s, b + 1) THEN b
    ELSE LET signed == ByteAt(s, b + 1) = CH.minus \/ ByteAt(s, b + 1) = CH.plus
             g == IF signed THEN b + 2 ELSE b + 1
         IN  IF at_eof(s, g) THEN g - 1
             ELSE IF ~IsDigit(ByteAt(s, g)) THEN g
             ELSE IF at_eof(s, DigitsEnd(s, g)) THEN DigitsEnd(s, g) - 1
             ELSE DigitsEnd(s, g)

number_fraction_reach(s, b) ==
    IF ByteAt(s, b) # CH.dot THEN number_exponent_reach(s, b)
    ELSE IF at_eof(s, b + 1) THEN b
    ELSE IF ~IsDigit(ByteAt(s, b + 1)) THEN b + 1
    ELSE IF at_eof(s, DigitsEnd(s, b + 1)) THEN DigitsEnd(s, b + 1) - 1
    ELSE number_exponent_reach(s, DigitsEnd(s, b + 1))

number_reach(s, p) ==
    LET a == IF ByteAt(s, p) = CH.minus THEN p + 1 ELSE p IN
    IF at_eof(s, a) THEN p
    ELSE IF ~IsDigit(ByteAt(s, a)) THEN a
    ELSE LET b == IF ByteAt(s, a) = CH.zero THEN a + 1 ELSE DigitsEnd(s, a) IN
         IF at_eof(s, b) THEN b - 1 ELSE number_fraction_reach(s, b)

\* read_hex at p with i digits to go: *p++ up to the first byte that is no
\* digit; u is the value, NULL when a byte is no digit
RECURSIVE read_hex_reach(_, _, _, _)
read_hex_reach(s, p, v, i) ==
    IF i = 0 THEN [ hi |-> p - 1, u |-> v ]
    ELSE IF HexDigit(ByteAt(s, p)) = NULL THEN [ hi |-> p, u |-> NULL ]
    ELSE read_hex_reach(s, p + 1, v * 16 + HexDigit(ByteAt(s, p)), i - 1)

\* the bytes write_utf8 stores for the code point
write_utf8_length(codepoint) ==
    IF codepoint < 128 THEN 1
    ELSE IF codepoint < 2048 THEN 2
    ELSE IF codepoint < 65536 THEN 3
    ELSE 4

\* the trail surrogate of case 'u', p past the lead's digits: p[0] and p[1]
\* are both read before they are compared; g is what read_hex finds at p + 2
trail_surrogate_reach(g, p, end) ==
    IF g.u = NULL \/ g.u < 56320 \/ g.u > 57343
    THEN [ hi |-> g.hi, p |-> NULL, end |-> end ]
    ELSE [ hi |-> Hi(g.hi, end + 3), p |-> p + 6, end |-> end + 4 ]

\* case 'u', p past the 'u'; h is what read_hex finds at p
code_unit_reach(h, s, p, end) ==
    IF h.u = NULL THEN [ hi |-> h.hi, p |-> NULL, end |-> end ]
    ELSE IF h.u >= 55296 /\ h.u <= 56319
    THEN IF ~has_remaining_characters(s, p + 4, 6)
         THEN [ hi |-> h.hi, p |-> NULL, end |-> end ]
         ELSE IF ByteAt(s, p + 4) # CH.backslash \/ ByteAt(s, p + 5) # CH.u
         THEN [ hi |-> p + 5, p |-> NULL, end |-> end ]
         ELSE trail_surrogate_reach(read_hex_reach(s, p + 6, 0, 4), p + 4, end)
    ELSE [ hi |-> Hi(h.hi, end + write_utf8_length(h.u) - 1), p |-> p + 4,
           end |-> end + write_utf8_length(h.u) ]

unicode_escape_reach(s, p, end) ==
    IF ~has_remaining_characters(s, p, 4)
    THEN [ hi |-> NULL, p |-> NULL, end |-> end ]
    ELSE code_unit_reach(read_hex_reach(s, p, 0, 4), s, p, end)

\* the for (;;) of parse_string_slow: the read cursor p, the write cursor
\* end, the highest offset touched so far
RECURSIVE parse_string_slow_reach(_, _, _, _)

after_escape_reach(e, s, hi) ==
    IF e.p = NULL THEN [ hi |-> Hi(hi, e.hi), p |-> NULL ]
    ELSE parse_string_slow_reach(s, e.p, e.end, Hi(hi, e.hi))

\* a sequence of n bytes: p[1] .. p[n - 1] are read one by one once
\* has_remaining_characters allows it, then end[0] .. end[n - 1] are written
utf8_sequence_reach(s, p, end, hi, n) ==
    IF ~has_remaining_characters(s, p, n) THEN [ hi |-> hi, p |-> NULL ]
    ELSE LET bad == { k \in 1 .. n - 1 : ~IsCont(ByteAt(s, p + k)) } IN
         IF bad # {}
         THEN [ hi |-> Hi(hi, p + (CHOOSE k \in bad : \A j \in bad : k <= j)),
                p |-> NULL ]
         ELSE parse_string_slow_reach(s, p + n, end + n,
                                      Hi(hi, Hi(p + n - 1, end + n - 1)))

parse_string_slow_reach(s, p, end, hi) ==
    IF p >= Len(s) THEN [ hi |-> hi, p |-> NULL ]
    ELSE IF s[p + 1] < 32 THEN [ hi |-> Hi(hi, p), p |-> NULL ]
    ELSE IF s[p + 1] = CH.quote
    THEN [ hi |-> Hi(hi, Hi(p, end)), p |-> p + 1 ]
    ELSE IF s[p + 1] = CH.backslash
    THEN IF p + 1 >= Len(s) THEN [ hi |-> Hi(hi, p), p |-> NULL ]
         ELSE IF SimpleEscape(s[p + 2]) # NULL
         THEN parse_string_slow_reach(s, p + 2, end + 1, Hi(hi, Hi(p + 1, end)))
         ELSE IF s[p + 2] = CH.u
         THEN after_escape_reach(unicode_escape_reach(s, p + 2, end), s,
                                 Hi(hi, p + 1))
         ELSE [ hi |-> Hi(hi, p + 1), p |-> NULL ]
    ELSE IF s[p + 1] < 128
    THEN parse_string_slow_reach(s, p + 1, end + 1, Hi(hi, Hi(p, end)))
    ELSE IF s[p + 1] < 224 THEN utf8_sequence_reach(s, p, end, Hi(hi, p), 2)
    ELSE IF s[p + 1] < 240 THEN utf8_sequence_reach(s, p, end, Hi(hi, p), 3)
    ELSE IF s[p + 1] < 248 THEN utf8_sequence_reach(s, p, end, Hi(hi, p), 4)
    ELSE [ hi |-> Hi(hi, p), p |-> NULL ]

\* the while loop of parse_string: p[0] .. p[3] while four bytes remain
RECURSIVE unrolled_loop_reach(_, _, _)
unrolled_loop_reach(s, p, hi) ==
    IF Len(s) - p >= 4
    THEN IF ~is_plain_string_character(ByteAt(s, p))
         THEN [ hi |-> p, p |-> p, found |-> TRUE ]
         ELSE IF ~is_plain_string_character(ByteAt(s, p + 1))
         THEN [ hi |-> p + 1, p |-> p + 1, found |-> TRUE ]
         ELSE IF ~is_plain_string_character(ByteAt(s, p + 2))
         THEN [ hi |-> p + 2, p |-> p + 2, found |-> TRUE ]
         ELSE IF ~is_plain_string_character(ByteAt(s, p + 3))
         THEN [ hi |-> p + 3, p |-> p + 3, found |-> TRUE ]
         ELSE unrolled_loop_reach(s, p + 4, p + 3)
    ELSE [ hi |-> hi, p |-> p, found |-> FALSE ]

\* from the label found: *p is read; a quote is overwritten with the NUL
string_found_reach(s, p) ==
    IF s[p + 1] = CH.quote THEN [ hi |-> p, p |-> p + 1 ]
    ELSE IF s[p + 1] < 32 THEN [ hi |-> p, p |-> NULL ]
    ELSE parse_string_slow_reach(s, p, p, p)

\* the byte loop of parse_string, u being what the unrolled loop has left
byte_loop_reach(u, s) ==
    IF u.found THEN string_found_reach(s, u.p)
    ELSE IF ScanBytes(s, u.p).eof THEN [ hi |-> Len(s) - 1, p |-> NULL ]
    ELSE string_found_reach(s, ScanBytes(s, u.p).p)

\* parse_string with p at the opening quote
string_reach(s, p) == byte_loop_reach(unrolled_loop_reach(s, p + 1, p), s)

\* the switch of next_element on the byte at q
value_reach(s, q) ==
    IF s[q + 1] = CH.n \/ s[q + 1] = CH.t THEN literal_reach(s, q, 4)
    ELSE IF s[q + 1] = CH.f THEN literal_reach(s, q, 5)
    ELSE IF IsDigit(s[q + 1]) \/ s[q + 1] = CH.minus THEN number_reach(s, q)
    ELSE IF s[q + 1] = CH.quote THEN string_reach(s, q).hi
    ELSE q

\* object_key after the key k: the whitespace and the byte where the colon
\* is looked for
colon_reach(k, s) ==
    IF k.p = NULL THEN k.hi ELSE Hi(k.hi, skip_whitespace_reach(s, k.p))

(***************************************************************************)
(* The state: the caller's buffers, the parser's fields, the locals of     *)
(* parser::parse that live across its labels, and the document returned.   *)
(***************************************************************************)
VARIABLES
    source,                 \* the input as the caller supplied it (never changes)
    input,                  \* the input buffer, written in place by the parse
    existing_buffer_size,   \* single_allocation: the caller's buffer, in words
    arena,                  \* the caller's buffer of words
    structure_end,          \* allocator: one past the last word of the arena used
    write_cursor,           \* allocator: the AST stack's top (it grows down)
    stack_top,              \* stack_head: the scratch stack's top (it grows up)
    p,                      \* parse(): the byte being parsed
    current_base,           \* parse(): offset of the current frame's sentinel
    current_structure_tag,  \* parse(): array or object
    pop_element,            \* parse(): the sentinel handed to pop
    value_tag_result,       \* parse(): tag of the value just parsed
    root_tag,               \* parser field
    error_line,             \* parser field
    error_column,           \* parser field
    error_code,             \* parser field
    error_arg,              \* parser field
    error_p,                \* make_error(): the offset it was last called with
    parse_result,           \* what parser::parse returned
    doc,                    \* the document sajson::parse returns
    faults,                 \* stores the run has made outside the memory it owns
    ip                      \* where control is: the label of parser::parse to run next

vars == << source, input, existing_buffer_size, arena, structure_end,
           write_cursor, stack_top, ip, p, current_base, current_structure_tag,
           pop_element, value_tag_result, root_tag, error_line, error_column,
           error_code, error_arg, error_p, parse_result, doc, faults >>

\* the state as one record, for the step operators below
State ==
    [ input |-> input, arena |-> arena, structure_end |-> structure_end,
      write_cursor |-> write_cursor, stack_top |-> stack_top, ip |-> ip, p |-> p,
      current_base |-> current_base,
      current_structure_tag |-> current_structure_tag,
      pop_element |-> pop_element, value_tag_result |-> value_tag_result,
      root_tag |-> root_tag, error_line |-> error_line,
      error_column |-> error_column, error_code |-> error_code,
      error_arg |-> error_arg, error_p |-> error_p,
      parse_result |-> parse_result, faults |-> faults ]

Becomes(st) ==
    /\ ip' = st.ip
    /\ input' = st.input
    /\ arena' = st.arena
    /\ structure_end' = st.structure_end
    /\ write_cursor' = st.write_cursor
    /\ stack_top' = st.stack_top
    /\ p' = st.p
    /\ current_base' = st.current_base
    /\ current_structure_tag' = st.current_structure_tag
    /\ pop_element' = st.pop_element
    /\ value_tag_result' = st.value_tag_result
    /\ root_tag' = st.root_tag
    /\ error_line' = st.error_line
    /\ error_column' = st.error_column
    /\ error_code' = st.error_code
    /\ error_arg' = st.error_arg
    /\ error_p' = st.error_p
    /\ parse_result' = st.parse_result
    /\ faults' = st.faults
    /\ UNCHANGED << source, existing_buffer_size, doc >>

\* return make_error(pos, code, arg): parse() returns false
Failed(st, pos, code, arg) ==
    LET e == make_error(st.input, pos, code, arg)
    IN  [ st EXCEPT !.error_line = e.error_line, !.error_column = e.error_column,
                    !.error_code = e.error_code, !.error_arg = e.error_arg,
                    !.error_p = IF pos = NULL THEN Len(st.input) ELSE pos,
                    !.parse_result = FALSE, !.ip = "return" ]

\* stack.push(&success, element) in state st, the oom() return when it
\* fails, and the goto that follows when it succeeds
Pushed(st, element, label) ==
    LET r == stack_push(st.arena, st.stack_top, element)
    IN  IF ~r.ok THEN Failed(st, st.p, "ERROR_OUT_OF_MEMORY", 0)
        ELSE [ st EXCEPT !.arena = r.arena, !.stack_top = r.stack_top,
                         !.faults = @ \cup
                             (IF OutOfArena({st.stack_top}, st.structure_end) # {}
                              THEN {"store outside the arena"} ELSE {})
                             \cup
                             (IF st.stack_top >= st.write_cursor
                              THEN {"scratch store into the AST"} ELSE {}),
                         !.ip = label ]

\* parse_string_slow wrote a decoded byte past its read cursor
StringFaults(r) == IF r.crossed THEN {"string write ahead of read"} ELSE {}

\* stores of the AST side at the word indices idx, the lowest of them the
\* write_cursor that allocator.reserve returned
AstFaults(st, idx) ==
    (IF OutOfArena(idx, st.structure_end) # {}
     THEN {"store outside the arena"} ELSE {})
    \cup
    (IF \E i \in idx : i < st.stack_top
     THEN {"AST reserve into the scratch stack"} ELSE {})

(***************************************************************************)
(* parser::parse, one operator per label.                                  *)
(***************************************************************************)
\* a variant of the entry that reports a bad root at the start of the input
step_entry_bad_root_at_start(st) ==
    LET q == skip_whitespace(st.input, 0) IN
    IF q = NULL
    THEN Failed([ st EXCEPT !.p = NULL ], NULL, "ERROR_MISSING_ROOT_ELEMENT", 0)
    ELSE LET st1 == [ st EXCEPT !.p = q, !.current_base = st.stack_top ] IN
         IF st.input[q + 1] = CH.lbracket
         THEN Pushed([ st1 EXCEPT !.current_structure_tag = TAG.array ],
                     make_element(TAG.array, ROOT_MARKER), "array_close_or_element")
         ELSE IF st.input[q + 1] = CH.lbrace
         THEN Pushed([ st1 EXCEPT !.current_structure_tag = TAG.object ],
                     make_element(TAG.object, ROOT_MARKER), "object_close_or_element")
         ELSE Failed(st1, 0, "ERROR_BAD_ROOT", 0)

\* the entry of parse(), up to the first goto
step_entry(st) ==
    LET q == skip_whitespace(st.input, 0) IN
    IF q = NULL
    THEN Failed([ st EXCEPT !.p = NULL ], NULL, "ERROR_MISSING_ROOT_ELEMENT", 0)
    ELSE LET st1 == [ st EXCEPT !.p = q, !.current_base = st.stack_top ] IN
         IF st.input[q + 1] = CH.lbracket
         THEN Pushed([ st1 EXCEPT !.current_structure_tag = TAG.array ],
                     make_element(TAG.array, ROOT_MARKER), "array_close_or_element")
         ELSE IF st.input[q + 1] = CH.lbrace
         THEN Pushed([ st1 EXCEPT !.current_structure_tag = TAG.object ],
                     make_element(TAG.object, ROOT_MARKER), "object_close_or_element")
         ELSE Failed(st1, q, "ERROR_BAD_ROOT", 0)

step_array_close_or_element(st) ==
    LET q == skip_whitespace(st.input, st.p + 1) IN
    IF q = NULL THEN Failed([ st EXCEPT !.p = NULL ], NULL, "ERROR_UNEXPECTED_END", 0)
    ELSE IF st.input[q + 1] = CH.rbracket
    THEN [ st EXCEPT !.p = q, !.ip = "pop_array" ]
    ELSE [ st EXCEPT !.p = q, !.ip = "next_element" ]

step_object_close_or_element(st) ==
    LET q == skip_whitespace(st.input, st.p + 1) IN
    IF q = NULL THEN Failed([ st EXCEPT !.p = NULL ], NULL, "ERROR_UNEXPECTED_END", 0)
    ELSE IF st.input[q + 1] = CH.rbrace
    THEN [ st EXCEPT !.p = q, !.ip = "pop_object" ]
    ELSE [ st EXCEPT !.p = q, !.ip = "object_key" ]

\* a variant that lets either closing bracket close the current structure
step_structure_close_or_comma_either_bracket(st) ==
    LET q == skip_whitespace(st.input, st.p) IN
    IF q = NULL THEN Failed([ st EXCEPT !.p = NULL ], NULL, "ERROR_UNEXPECTED_END", 0)
    ELSE IF st.input[q + 1] \in { CH.rbracket, CH.rbrace }
    THEN [ st EXCEPT !.p = q,
                     !.ip = IF st.current_structure_tag = TAG.array
                            THEN "pop_array" ELSE "pop_object" ]
    ELSE IF st.input[q + 1] # CH.comma
    THEN Failed([ st EXCEPT !.p = q ], q, "ERROR_EXPECTED_COMMA", 0)
    ELSE [ st EXCEPT !.p = q + 1,
                     !.ip = IF st.current_structure_tag = TAG.array
                            THEN "next_element" ELSE "object_key" ]

step_structure_close_or_comma(st) ==
    LET q == skip_whitespace(st.input, st.p) IN
    IF q = NULL THEN Failed([ st EXCEPT !.p = NULL ], NULL, "ERROR_UNEXPECTED_END", 0)
    ELSE IF st.current_structure_tag = TAG.array
    THEN IF st.input[q + 1] = CH.rbracket
         THEN [ st EXCEPT !.p = q, !.ip = "pop_array" ]
         ELSE IF st.input[q + 1] # CH.comma
         THEN Failed([ st EXCEPT !.p = q ], q, "ERROR_EXPECTED_COMMA", 0)
         ELSE [ st EXCEPT !.p = q + 1, !.ip = "next_element" ]
    ELSE IF st.input[q + 1] = CH.rbrace
         THEN [ st EXCEPT !.p = q, !.ip = "pop_object" ]
         ELSE IF st.input[q + 1] # CH.comma
         THEN Failed([ st EXCEPT !.p = q ], q, "ERROR_EXPECTED_COMMA", 0)
         ELSE [ st EXCEPT !.p = q + 1, !.ip = "object_key" ]

step_pop_object(st, ties) ==
    LET r == install_object(st.arena, st.input, st.current_base + 1, st.stack_top,
                            st.write_cursor, st.structure_end, ties)
    IN  [ st EXCEPT !.p = st.p + 1,
                    !.pop_element = st.arena[st.current_base],
                    !.arena = r.arena,
                    !.write_cursor = r.write_cursor,
                    !.faults = @ \cup AstFaults(st, r.written),
                    !.ip = "pop" ]

\* a variant of the label pop_array that leaves p on the closing bracket
step_pop_array_closer_kept(st) ==
    LET r == install_array(st.arena, st.current_base + 1, st.stack_top,
                           st.write_cursor, st.structure_end)
    IN  [ st EXCEPT !.pop_element = st.arena[st.current_base],
                    !.arena = r.arena,
                    !.write_cursor = r.write_cursor,
                    !.faults = @ \cup AstFaults(st, r.written),
                    !.ip = "pop" ]

step_pop_array(st) ==
    LET r == install_array(st.arena, st.current_base + 1, st.stack_top,
                           st.write_cursor, st.structure_end)
    IN  [ st EXCEPT !.p = st.p + 1,
                    !.pop_element = st.arena[st.current_base],
                    !.arena = r.arena,
                    !.write_cursor = r.write_cursor,
                    !.faults = @ \cup AstFaults(st, r.written),
                    !.ip = "pop" ]

\* a variant that reads the value when no colon follows the key
step_object_key_colon_optional(st) ==
    LET q == skip_whitespace(st.input, st.p) IN
    IF q = NULL THEN Failed([ st EXCEPT !.p = NULL ], NULL, "ERROR_UNEXPECTED_END", 0)
    ELSE IF st.input[q + 1] # CH.quote
    THEN Failed([ st EXCEPT !.p = q ], q, "ERROR_MISSING_OBJECT_KEY", 0)
    ELSE LET out == st.stack_top
             st1 == [ st EXCEPT !.stack_top = stack_reserve(st.stack_top, 2) ]
             r == parse_string(st.input, q)
         IN  IF r.p = NULL
             THEN Failed([ st1 EXCEPT !.p = NULL, !.input = r.s,
                                      !.faults = @ \cup StringFaults(r) ],
                         r.err.pos, r.err.code, r.err.arg)
             ELSE LET st2 == [ st1 EXCEPT
                                 !.input = r.s,
                                 !.arena = Store(Store(st.arena, out, r.tag0),
                                                 out + 1, r.tag1),
                                 !.faults = @ \cup StringFaults(r) \cup
                                     (IF OutOfArena({out, out + 1}, st.structure_end) # {}
                                      THEN {"store outside the arena"} ELSE {})
                                     \cup
                                     (IF out + 1 >= st.write_cursor
                                      THEN {"scratch store into the AST"} ELSE {}) ]
                      q2 == skip_whitespace(r.s, r.p)
                  IN  IF q2 = NULL
                      THEN Failed([ st2 EXCEPT !.p = q2 ], q2, "ERROR_EXPECTED_COLON", 0)
                      ELSE IF r.s[q2 + 1] # CH.colon
                      THEN [ st2 EXCEPT !.p = q2, !.ip = "next_element" ]
                      ELSE [ st2 EXCEPT !.p = q2 + 1, !.ip = "next_element" ]

step_object_key(st) ==
    LET q == skip_whitespace(st.input, st.p) IN
    IF q = NULL THEN Failed([ st EXCEPT !.p = NULL ], NULL, "ERROR_UNEXPECTED_END", 0)
    ELSE IF st.input[q + 1] # CH.quote
    THEN Failed([ st EXCEPT !.p = q ], q, "ERROR_MISSING_OBJECT_KEY", 0)
    ELSE LET out == st.stack_top
             st1 == [ st EXCEPT !.stack_top = stack_reserve(st.stack_top, 2) ]
             r == parse_string(st.input, q)
         IN  IF r.p = NULL
             THEN Failed([ st1 EXCEPT !.p = NULL, !.input = r.s,
                                      !.faults = @ \cup StringFaults(r) ],
                         r.err.pos, r.err.code, r.err.arg)
             ELSE LET st2 == [ st1 EXCEPT
                                 !.input = r.s,
                                 !.arena = Store(Store(st.arena, out, r.tag0),
                                                 out + 1, r.tag1),
                                 !.faults = @ \cup StringFaults(r) \cup
                                     (IF OutOfArena({out, out + 1}, st.structure_end) # {}
                                      THEN {"store outside the arena"} ELSE {})
                                     \cup
                                     (IF out + 1 >= st.write_cursor
                                      THEN {"scratch store into the AST"} ELSE {}) ]
                      q2 == skip_whitespace(r.s, r.p)
                  IN  IF q2 = NULL \/ r.s[q2 + 1] # CH.colon
                      THEN Failed([ st2 EXCEPT !.p = q2 ], q2, "ERROR_EXPECTED_COLON", 0)
                      ELSE [ st2 EXCEPT !.p = q2 + 1, !.ip = "next_element" ]

\* integer_storage::word_length, double_storage::word_length (64-bit size_t)
integer_word_length == 1
double_word_length == 1

\* a variant of the number case that reserves a word more than it stores
step_number_spare_word(st) ==
    LET r == NumScan(st.input, st.p) IN
    IF r.p = NULL
    THEN Failed([ st EXCEPT !.p = NULL ], r.err.pos, r.err.code, r.err.arg)
    ELSE LET size == IF r.try_double THEN double_word_length
                     ELSE integer_word_length
             out == allocator_reserve(st.write_cursor, size + 1)
         IN  [ st EXCEPT !.p = r.p,
                         !.write_cursor = out,
                         !.arena = Store(st.arena, out,
                                         IF r.try_double THEN r.d ELSE r.i),
                         !.faults = @ \cup AstFaults(st, {out}),
                         !.value_tag_result =
                             IF r.try_double THEN TAG.double_ ELSE TAG.integer,
                         !.ip = "push_value" ]

\* case '0'..'9', '-': parse_number, the payload word reserved and stored
step_number(st) ==
    LET r == NumScan(st.input, st.p) IN
    IF r.p = NULL
    THEN Failed([ st EXCEPT !.p = NULL ], r.err.pos, r.err.code, r.err.arg)
    ELSE LET size == IF r.try_double THEN double_word_length
                     ELSE integer_word_length
             out == allocator_reserve(st.write_cursor, size)
         IN  [ st EXCEPT !.p = r.p,
                         !.write_cursor = out,
                         !.arena = Store(st.arena, out,
                                         IF r.try_double THEN r.d ELSE r.i),
                         !.faults = @ \cup AstFaults(st, {out}),
                         !.value_tag_result =
                             IF r.try_double THEN TAG.double_ ELSE TAG.integer,
                         !.ip = "push_value" ]

\* case '"': two AST words reserved, then parse_string into them
step_string(st) ==
    LET string_tag == allocator_reserve(st.write_cursor, 2)
        st1 == [ st EXCEPT !.write_cursor = string_tag ]
        r == parse_string(st.input, st.p)
    IN  IF r.p = NULL
        THEN Failed([ st1 EXCEPT !.p = NULL, !.input = r.s,
                                 !.faults = @ \cup StringFaults(r) ],
                    r.err.pos, r.err.code, r.err.arg)
        ELSE [ st1 EXCEPT !.p = r.p,
                          !.input = r.s,
                          !.arena = Store(Store(st.arena, string_tag, r.tag0),
                                          string_tag + 1, r.tag1),
                          !.faults = @ \cup AstFaults(st, {string_tag, string_tag + 1})
                                       \cup StringFaults(r),
                          !.value_tag_result = TAG.string,
                          !.ip = "push_value" ]

\* a literal: r is what parse_null, parse_false or parse_true returned
step_literal(st, r, t) ==
    IF r.p = NULL
    THEN Failed([ st EXCEPT !.p = NULL ], r.err.pos, r.err.code, r.err.arg)
    ELSE [ st EXCEPT !.p = r.p, !.value_tag_result = t, !.ip = "push_value" ]

\* a variant of case '[' and case '{' whose sentinel names the new frame
\* itself instead of the enclosing one
step_descend_naming_itself(st, t) ==
    LET st1 == [ st EXCEPT !.current_base = st.stack_top ]
    IN  [ Pushed(st1, make_element(st.current_structure_tag, st1.current_base),
                 IF t = TAG.array THEN "array_close_or_element"
                 ELSE "object_close_or_element")
          EXCEPT !.current_structure_tag = t ]

\* case '[' and case '{': a new frame whose sentinel names the enclosing one
step_descend(st, t) ==
    LET previous_base == st.current_base
        st1 == [ st EXCEPT !.current_base = st.stack_top ]
    IN  [ Pushed(st1, make_element(st.current_structure_tag, previous_base),
                 IF t = TAG.array THEN "array_close_or_element"
                 ELSE "object_close_or_element")
          EXCEPT !.current_structure_tag = t ]

\* a variant that lets a closing bracket stand where a value is expected
step_next_element_trailing_comma(st) ==
    LET q == skip_whitespace(st.input, st.p) IN
    IF q = NULL THEN Failed([ st EXCEPT !.p = NULL ], NULL, "ERROR_UNEXPECTED_END", 0)
    ELSE LET c == st.input[q + 1]
             st1 == [ st EXCEPT !.p = q ]
         IN  IF c = 0 THEN Failed(st1, q, "ERROR_UNEXPECTED_END", 0)
             ELSE IF c = CH.n THEN step_literal(st1, parse_null(st.input, q), TAG.null)
             ELSE IF c = CH.f THEN step_literal(st1, parse_false(st.input, q), TAG.false_)
             ELSE IF c = CH.t THEN step_literal(st1, parse_true(st.input, q), TAG.true_)
             ELSE IF IsDigit(c) \/ c = CH.minus THEN step_number(st1)
             ELSE IF c = CH.quote THEN step_string(st1)
             ELSE IF c = CH.lbracket THEN step_descend(st1, TAG.array)
             ELSE IF c = CH.lbrace THEN step_descend(st1, TAG.object)
             ELSE IF c = CH.comma THEN Failed(st1, q, "ERROR_UNEXPECTED_COMMA", 0)
             ELSE IF c = CH.rbracket /\ st.current_structure_tag = TAG.array
             THEN [ st1 EXCEPT !.ip = "pop_array" ]
             ELSE Failed(st1, q, "ERROR_EXPECTED_VALUE", 0)

step_next_element(st) ==
    LET q == skip_whitespace(st.input, st.p) IN
    IF q = NULL THEN Failed([ st EXCEPT !.p = NULL ], NULL, "ERROR_UNEXPECTED_END", 0)
    ELSE LET c == st.input[q + 1]
             st1 == [ st EXCEPT !.p = q ]
         IN  IF c = 0 THEN Failed(st1, q, "ERROR_UNEXPECTED_END", 0)
             ELSE IF c = CH.n THEN step_literal(st1, parse_null(st.input, q), TAG.null)
             ELSE IF c = CH.f THEN step_literal(st1, parse_false(st.input, q), TAG.false_)
             ELSE IF c = CH.t THEN step_literal(st1, parse_true(st.input, q), TAG.true_)
             ELSE IF IsDigit(c) \/ c = CH.minus THEN step_number(st1)
             ELSE IF c = CH.quote THEN step_string(st1)
             ELSE IF c = CH.lbracket THEN step_descend(st1, TAG.array)
             ELSE IF c = CH.lbrace THEN step_descend(st1, TAG.object)
             ELSE IF c = CH.comma THEN Failed(st1, q, "ERROR_UNEXPECTED_COMMA", 0)
             ELSE Failed(st1, q, "ERROR_EXPECTED_VALUE", 0)

\* a variant of the label pop that leaves the closed frame on the scratch stack
step_pop_without_reset(st) ==
    LET parent == get_element_value(st.pop_element) IN
    IF parent = ROOT_MARKER
    THEN LET st1 == [ st EXCEPT !.root_tag = st.current_structure_tag ]
             q == skip_whitespace(st.input, st.p)
         IN  IF q # NULL
             THEN Failed([ st1 EXCEPT !.p = q ], q, "ERROR_EXPECTED_END_OF_INPUT", 0)
             ELSE [ st1 EXCEPT !.p = NULL, !.parse_result = TRUE, !.ip = "return" ]
    ELSE [ st EXCEPT !.current_base = parent,
                     !.value_tag_result = st.current_structure_tag,
                     !.current_structure_tag = get_element_tag(st.pop_element),
                     !.ip = "push_value" ]

\* a variant of the label pop that does not look for input after the root
step_pop_ignoring_trailing_input(st) ==
    LET parent == get_element_value(st.pop_element) IN
    IF parent = ROOT_MARKER
    THEN [ st EXCEPT !.root_tag = st.current_structure_tag,
                     !.p = NULL, !.parse_result = TRUE, !.ip = "return" ]
    ELSE [ st EXCEPT !.stack_top = st.current_base,
                     !.current_base = parent,
                     !.value_tag_result = st.current_structure_tag,
                     !.current_structure_tag = get_element_tag(st.pop_element),
                     !.ip = "push_value" ]

\* a variant of the label pop that takes a NUL after the root for the end
step_pop_stopping_at_nul(st) ==
    LET parent == get_element_value(st.pop_element) IN
    IF parent = ROOT_MARKER
    THEN LET st1 == [ st EXCEPT !.root_tag = st.current_structure_tag ]
             q == skip_whitespace(st.input, st.p)
         IN  IF q # NULL /\ st.input[q + 1] # 0
             THEN Failed([ st1 EXCEPT !.p = q ], q, "ERROR_EXPECTED_END_OF_INPUT", 0)
             ELSE [ st1 EXCEPT !.p = NULL, !.parse_result = TRUE, !.ip = "return" ]
    ELSE [ st EXCEPT !.stack_top = st.current_base,
                     !.current_base = parent,
                     !.value_tag_result = st.current_structure_tag,
                     !.current_structure_tag = get_element_tag(st.pop_element),
                     !.ip = "push_value" ]

\* a variant of the label pop that leaves current_structure_tag the child's
step_pop_keeping_child_tag(st) ==
    LET parent == get_element_value(st.pop_element) IN
    IF parent = ROOT_MARKER
    THEN LET st1 == [ st EXCEPT !.root_tag = st.current_structure_tag ]
             q == skip_whitespace(st.input, st.p)
         IN  IF q # NULL
             THEN Failed([ st1 EXCEPT !.p = q ], q, "ERROR_EXPECTED_END_OF_INPUT", 0)
             ELSE [ st1 EXCEPT !.p = NULL, !.parse_result = TRUE, !.ip = "return" ]
    ELSE [ st EXCEPT !.stack_top = st.current_base,
                     !.current_base = parent,
                     !.value_tag_result = st.current_structure_tag,
                     !.ip = "push_value" ]

\* the label pop, inside the switch of next_element
step_pop(st) ==
    LET parent == get_element_value(st.pop_element) IN
    IF parent = ROOT_MARKER
    THEN LET st1 == [ st EXCEPT !.root_tag = st.current_structure_tag ]
             q == skip_whitespace(st.input, st.p)
         IN  IF q # NULL
             THEN Failed([ st1 EXCEPT !.p = q ], q, "ERROR_EXPECTED_END_OF_INPUT", 0)
             ELSE [ st1 EXCEPT !.p = NULL, !.parse_result = TRUE, !.ip = "return" ]
    ELSE [ st EXCEPT !.stack_top = st.current_base,
                     !.current_base = parent,
                     !.value_tag_result = st.current_structure_tag,
                     !.current_structure_tag = get_element_tag(st.pop_element),
                     !.ip = "push_value" ]

\* after the switch: the element word of the value just parsed is pushed
step_push_value(st) ==
    Pushed(st, make_element(st.value_tag_result,
                            get_write_offset(st.structure_end, st.write_cursor)),
           "structure_close_or_comma")

(***************************************************************************)
(* Actions.                                                                *)
(***************************************************************************)
\* sajson::parse up to the construction of the parser
Parse ==
    /\ ip = "parse"
    /\ LET al == make_allocator(existing_buffer_size, Len(input)) IN
       IF ~al.succeeded
       THEN /\ doc' = DocumentError(1, 1, "ERROR_OUT_OF_MEMORY", 0)
            /\ ip' = "done"
            /\ UNCHANGED << source, input, existing_buffer_size, arena,
                            structure_end, write_cursor, stack_top, p,
                            current_base, current_structure_tag, pop_element,
                            value_tag_result, root_tag, error_line, error_column,
                            error_code, error_arg, error_p, parse_result,
                            faults >>
       ELSE /\ structure_end' = al.structure_end
            /\ write_cursor' = al.write_cursor
            /\ stack_top' = 0
            /\ root_tag' = TAG.null
            /\ error_line' = 0
            /\ error_column' = 0
            /\ ip' = "parser_parse"
            /\ UNCHANGED << source, input, existing_buffer_size, arena, p,
                            current_base, current_structure_tag, pop_element,
                            value_tag_result, error_code, error_arg, error_p,
                            parse_result, doc, faults >>

ParserParse == ip = "parser_parse" /\ Becomes(step_entry(State))

ArrayCloseOrElement ==
    ip = "array_close_or_element" /\ Becomes(step_array_close_or_element(State))

ObjectCloseOrElement ==
    ip = "object_close_or_element" /\ Becomes(step_object_close_or_element(State))

StructureCloseOrComma ==
    ip = "structure_close_or_comma" /\ Becomes(step_structure_close_or_comma(State))

\* the frame's member count as install_object will compute it
FrameMembers == (stack_top - (current_base + 1)) \div 3

PopObject ==
    /\ ip = "pop_object"
    /\ \E ties \in IF should_binary_search(FrameMembers)
                   THEN {"kept", "reversed"} ELSE {"kept"} :
          Becomes(step_pop_object(State, ties))

PopArray == ip = "pop_array" /\ Becomes(step_pop_array(State))

ObjectKey == ip = "object_key" /\ Becomes(step_object_key(State))

NextElement == ip = "next_element" /\ Becomes(step_next_element(State))

Pop == ip = "pop" /\ Becomes(step_pop(State))

PushValue == ip = "push_value" /\ Becomes(step_push_value(State))

\* a variant of get_document that goes by root_tag instead of parse()'s result
GetDocumentByRootTag ==
    /\ ip = "return"
    /\ doc' = IF root_tag # TAG.null
              THEN DocumentOk(root_tag, write_cursor)
              ELSE DocumentError(error_line, error_column, error_code, error_arg)
    /\ ip' = "done"
    /\ UNCHANGED << source, input, existing_buffer_size, arena, structure_end,
                    write_cursor, stack_top, p, current_base,
                    current_structure_tag, pop_element, value_tag_result,
                    root_tag, error_line, error_column, error_code, error_arg,
                    error_p, parse_result, faults >>

\* parser::get_document, once parse() has returned
GetDocument ==
    /\ ip = "return"
    /\ doc' = IF parse_result
              THEN DocumentOk(root_tag, write_cursor)
              ELSE DocumentError(error_line, error_column, error_code, error_arg)
    /\ ip' = "done"
    /\ UNCHANGED << source, input, existing_buffer_size, arena, structure_end,
                    write_cursor, stack_top, p, current_base,
                    current_structure_tag, pop_element, value_tag_result,
                    root_tag, error_line, error_column, error_code, error_arg,
                    error_p, parse_result, faults >>

Next ==
    \/ Parse
    \/ ParserParse
    \/ ArrayCloseOrElement
    \/ ObjectCloseOrElement
    \/ StructureCloseOrComma
    \/ PopObject
    \/ PopArray
    \/ ObjectKey
    \/ NextElement
    \/ Pop
    \/ PushValue
    \/ GetDocument

(***************************************************************************)
(* The value navigation API.  A value is its tag and the word offset of    *)
(* its payload; the arena a and the text s it reads are passed in.         *)
(***************************************************************************)
value(value_tag_, payload_) == [ value_tag |-> value_tag_, payload |-> payload_ ]

get_root(d) == value(d.root_tag, d.root)

get_length(a, v) == a[v.payload]

\* a variant of get_array_element that forgets the length word
get_array_element_from_zero(a, v, index) ==
    LET element == a[v.payload + index] IN
    value(get_element_tag(element), v.payload + get_element_value(element))

get_array_element(a, v, index) ==
    LET element == a[v.payload + 1 + index] IN
    value(get_element_tag(element), v.payload + get_element_value(element))

get_object_key(a, s, v, index) ==
    LET k == v.payload + 1 + index * 3 IN
    SubSeq(s, a[k] + 1, a[k + 1])

get_object_value(a, v, index) ==
    LET element == a[v.payload + 3 + index * 3] IN
    value(get_element_tag(element), v.payload + get_element_value(element))

get_integer_value(a, v) == a[v.payload]

as_string(a, s, v) == SubSeq(s, a[v.payload] + 1, a[v.payload + 1])

\* object_key_record::match, r the word offset of the record
match(a, s, r, str) ==
    LET length == a[r + 1] - a[r] IN
    /\ length = Len(str)
    /\ SubSeq(s, a[r] + 1, a[r] + length) = str

\* memcmp(x, y, Len(x)) < 0 on two byte strings of one length
RECURSIVE memcmp_negative(_, _)
memcmp_negative(x, y) ==
    IF x = << >> THEN FALSE
    ELSE IF Head(x) < Head(y) THEN TRUE
    ELSE IF Head(x) > Head(y) THEN FALSE
    ELSE memcmp_negative(Tail(x), Tail(y))

\* a variant of the comparator that puts longer keys first
record_less_string_longer_first(a, s, lhs, rhs) ==
    LET lhs_length == a[lhs + 1] - a[lhs]
        rhs_length == Len(rhs)
    IN  IF lhs_length > rhs_length THEN TRUE
        ELSE IF lhs_length < rhs_length THEN FALSE
        ELSE memcmp_negative(SubSeq(s, a[lhs] + 1, a[lhs] + lhs_length), rhs)

\* object_key_comparator, record against string
record_less_string(a, s, lhs, rhs) ==
    LET lhs_length == a[lhs + 1] - a[lhs]
        rhs_length == Len(rhs)
    IN  IF lhs_length < rhs_length THEN TRUE
        ELSE IF lhs_length > rhs_length THEN FALSE
        ELSE memcmp_negative(SubSeq(s, a[lhs] + 1, a[lhs] + lhs_length), rhs)

\* std::lower_bound over records of 3 words, by halving
RECURSIVE lower_bound(_, _, _, _, _)
lower_bound(a, s, first, len, key) ==
    IF len <= 0 THEN first
    ELSE LET half == len \div 2
             mid == first + 3 * half
         IN  IF record_less_string(a, s, mid, key)
             THEN lower_bound(a, s, mid + 3, len - half - 1, key)
             ELSE lower_bound(a, s, first, half, key)

RECURSIVE linear_scan(_, _, _, _, _, _)
linear_scan(a, s, start, i, length, key) ==
    IF i >= length THEN length
    ELSE IF match(a, s, start + 3 * i, key) THEN i
    ELSE linear_scan(a, s, start, i + 1, length, key)

find_object_key(a, s, v, key) ==
    LET length == get_length(a, v)
        start == v.payload + 1
        end == start + 3 * length
    IN  IF should_binary_search(length)
        THEN LET i == lower_bound(a, s, start, length, key) IN
             IF i # end /\ match(a, s, i, key) THEN (i - start) \div 3
             ELSE length
        ELSE linear_scan(a, s, start, 0, length, key)

get_value_of_key(a, s, v, key) ==
    LET i == find_object_key(a, s, v, key) IN
    IF i < get_length(a, v) THEN get_object_value(a, v, i)
    ELSE value(TAG.null, NULL)

(***************************************************************************)
(* Inputs.                                                                 *)
(***************************************************************************)
\* the tokens of the short inputs
Tokens ==
    { << CH.lbracket >>, << CH.rbracket >>, << CH.lbrace >>, << CH.rbrace >>,
      << CH.comma >>, << CH.colon >>, << CH.space >>,
      << CH.quote, CH.a, CH.quote >>,
      << CH.zero >>, << CH.zero + 1 >>,
      << CH.n, CH.u, CH.l, CH.l >> }

\* the tokens tried inside a structure
StructureTokens ==
    { << CH.lbracket >>, << CH.rbracket >>, << CH.lbrace >>, << CH.rbrace >>,
      << CH.comma >>, << CH.colon >>, << CH.space >>,
      << CH.quote, CH.a, CH.quote >>,
      << CH.zero + 1 >> }

RECURSIVE TokenInputs(_, _)
TokenInputs(tokens, k) ==
    IF k = 0 THEN { << >> }
    ELSE LET shorter == TokenInputs(tokens, k - 1)
         IN  shorter \cup { t \o i : t \in tokens, i \in shorter }

\* every short token sequence, and every longer one that opens a structure
TokenFamily ==
    TokenInputs(Tokens, FreeTokens)
        \cup { << b >> \o i : b \in { CH.lbracket, CH.lbrace },
                             i \in TokenInputs(StructureTokens, MaxTokens) }

(***************************************************************************)
(* Documents: values as trees, and their JSON text.                        *)
(***************************************************************************)
VNull == [ kind |-> "null", int |-> 0, str |-> << >>, items |-> << >> ]
VTrue == [ kind |-> "true", int |-> 0, str |-> << >>, items |-> << >> ]
VFalse == [ kind |-> "false", int |-> 0, str |-> << >>, items |-> << >> ]
VInt(i) == [ kind |-> "integer", int |-> i, str |-> << >>, items |-> << >> ]
VStr(bytes) == [ kind |-> "string", int |-> 0, str |-> bytes, items |-> << >> ]
VArr(es) == [ kind |-> "array", int |-> 0, str |-> << >>, items |-> es ]
\* ms: a sequence of [key |-> bytes, value |-> a value]
VObj(ms) == [ kind |-> "object", int |-> 0, str |-> << >>, items |-> ms ]

DocScalars == { VInt(12), VStr(<< CH.a, CH.b >>) }
DocKeys == { << CH.a >>, << CH.b >> }

\* the values of exactly n nodes, and the lists of values of n nodes in all
RECURSIVE ValuesOf(_), ListsOf(_), MembersOf(_)
ValuesOf(n) ==
    IF n <= 0 THEN {}
    ELSE (IF n = 1 THEN DocScalars ELSE {})
            \cup { VArr(es) : es \in ListsOf(n - 1) }
            \cup { VObj(ms) : ms \in MembersOf(n - 1) }

ListsOf(n) ==
    IF n = 0 THEN { << >> }
    ELSE UNION { { << v >> \o rest : v \in ValuesOf(k), rest \in ListsOf(n - k) }
                 : k \in 1 .. n }

MembersOf(n) ==
    IF n = 0 THEN { << >> }
    ELSE UNION { { << [ key |-> key, value |-> v ] >> \o rest :
                       key \in DocKeys, v \in ValuesOf(k), rest \in MembersOf(n - k) }
                 : k \in 1 .. n }

RECURSIVE Decimal(_)
Decimal(i) ==
    IF i < 10 THEN << CH.zero + i >>
    ELSE Append(Decimal(i \div 10), CH.zero + (i % 10))

Quoted(bytes) == << CH.quote >> \o bytes \o << CH.quote >>

RECURSIVE Serialize(_), SerializeList(_), SerializeMembers(_)
Serialize(v) ==
    CASE v.kind = "null" -> << CH.n, CH.u, CH.l, CH.l >>
      [] v.kind = "true" -> << CH.t, CH.r, CH.u, CH.e >>
      [] v.kind = "false" -> << CH.f, CH.a, CH.l, CH.s, CH.e >>
      [] v.kind = "integer" -> Decimal(v.int)
      [] v.kind = "string" -> Quoted(v.str)
      [] v.kind = "array" ->
            << CH.lbracket >> \o SerializeList(v.items) \o << CH.rbracket >>
      [] v.kind = "object" ->
            << CH.lbrace >> \o SerializeMembers(v.items) \o << CH.rbrace >>

SerializeList(es) ==
    IF es = << >> THEN << >>
    ELSE Serialize(Head(es))
            \o (IF Len(es) > 1 THEN << CH.comma >> ELSE << >>)
            \o SerializeList(Tail(es))

SerializeMembers(ms) ==
    IF ms = << >> THEN << >>
    ELSE Quoted(Head(ms).key) \o << CH.colon >> \o Serialize(Head(ms).value)
            \o (IF Len(ms) > 1 THEN << CH.comma >> ELSE << >>)
            \o SerializeMembers(Tail(ms))

\* the text of every array or object of at most MaxNodes values
DocFamily ==
    UNION { { Serialize(v) : v \in { w \in ValuesOf(n) : w.kind \in { "array", "object" } } }
            : n \in 1 .. MaxNodes }

\* the state before sajson::parse runs on text with a buffer of size words
InitWith(text, size) ==
    /\ source = text
    /\ input = text
    /\ existing_buffer_size = size
    /\ arena = [ i \in 0 .. size - 1 |-> UNWRITTEN ]
    /\ structure_end = 0
    /\ write_cursor = 0
    /\ stack_top = 0
    /\ ip = "parse"
    /\ p = 0
    /\ current_base = 0
    /\ current_structure_tag = TAG.null
    /\ pop_element = 0
    /\ value_tag_result = TAG.null
    /\ root_tag = TAG.null
    /\ error_line = 0
    /\ error_column = 0
    /\ error_code = INDETERMINATE
    /\ error_arg = 0
    /\ error_p = NULL
    /\ parse_result = FALSE
    /\ doc = DocumentDefault
    /\ faults = {}

\* buffers of as many words as the input has bytes, or one word fewer
BufferSizes(text) == { n \in { Len(text), Len(text) - 1 } : n >= 0 }

\* objects at and just past the threshold of should_binary_search: keys of
\* one and two letters in no order, some of them repeated with other values
BigKey(i) ==
    IF i % 5 = 0 THEN << CH.a + (i % 3) >>
    ELSE << CH.a + ((i * 7) % 13), CH.a + ((i * 5) % 11) >>

BigObject(members) ==
    VObj([ k \in 1 .. members |-> [ key |-> BigKey(k - 1), value |-> VInt((k - 1) % 10) ] ])

BigFamily ==
    { Serialize(BigObject(SortThreshold)),
      Serialize(BigObject(SortThreshold + 1)),
      Serialize(VArr(<< VInt(7), BigObject(SortThreshold + 2) >>)) }

\* the three literals, as elements and as members
LiteralFamily ==
    { Serialize(VArr(<< VTrue, VFalse, VNull >>)),
      Serialize(VObj(<< [ key |-> << CH.t >>, value |-> VTrue ],
                        [ key |-> << CH.f >>, value |-> VFalse ],
                        [ key |-> << CH.n >>, value |-> VNull ] >>)),
      Serialize(VArr(<< VInt(1), VArr(<< VNull >>) >>)) }

\* arrays and objects with whitespace between their tokens, which leaves
\* the arena words that the new record does not share with the frame
SpacedFamily ==
    { << CH.lbracket, CH.zero + 1, CH.space, CH.comma, CH.zero + 2, CH.comma,
         CH.zero + 3, CH.rbracket >>,
      << CH.lbracket, CH.space, CH.lbracket, CH.zero + 1, CH.comma, CH.zero + 2,
         CH.rbracket, CH.space, CH.comma, CH.zero + 3, CH.rbracket >>,
      << CH.lbrace, CH.quote, CH.a, CH.quote, CH.space, CH.colon, CH.zero + 1,
         CH.comma, CH.quote, CH.b, CH.quote, CH.colon, CH.zero + 2, CH.rbrace >> }

Inputs == TokenFamily \cup DocFamily \cup LiteralFamily \cup BigFamily
              \cup SpacedFamily

Init ==
    \E text \in Inputs :
        \E size \in BufferSizes(text) : InitWith(text, size)

Spec == Init /\ [][Next]_vars

(***************************************************************************)
(* Inputs of the scanners: whitespace and line breaks around the root,     *)
(* bytes after the root, string literals with escapes, control bytes and   *)
(* multi-byte characters, and number tokens.                               *)
(***************************************************************************)
\* the whitespace bytes of is_whitespace
WsBytes == { << CH.tab >>, << CH.lf >>, << CH.cr >>, << CH.space >> }

\* the runs of at most MaxPad whitespace bytes
Pads == TokenInputs(WsBytes, MaxPad)

\* what the first byte after the leading whitespace may be
RootHeads ==
    { << >>, << 0 >>, << CH.a >>, << CH.zero >>, << CH.quote >>, << CH.rbracket >>,
      << CH.lbracket >>, << CH.lbrace >>,
      << CH.lbracket, CH.rbracket >>, << CH.lbrace, CH.rbrace >> }

RootFamily == { pad \o head : pad \in Pads, head \in RootHeads }

\* a root, whitespace, and what follows it
Trailers ==
    { << >>, << 0 >>, << CH.a >>, << CH.comma >>, << CH.rbracket >>,
      << CH.lbracket, CH.rbracket >>, << CH.lbrace, CH.rbrace >> }

TrailFamily ==
    { lead \o root \o pad \o trailer :
        lead \in { << >>, << CH.cr, CH.lf >> },
        root \in { << CH.lbracket, CH.rbracket >>, << CH.lbrace, CH.rbrace >>,
                   << CH.lbracket, CH.zero + 1, CH.rbracket >> },
        pad \in Pads,
        trailer \in Trailers }

\* the pieces string literals are made of: plain bytes (four of them for the
\* unrolled loop), escapes that decode to a line break, to a quote, and to a
\* two-byte character, a two-byte character, and bytes below 0x20
StringPieces ==
    { << CH.a >>,
      << CH.a, CH.b, CH.a, CH.b >>,
      << CH.backslash, CH.n >>,
      << CH.backslash, CH.r >>,
      << CH.backslash, CH.quote >>,
      << CH.backslash, CH.u, CH.zero, CH.zero, CH.e, CH.zero + 9 >>,
      << 195, 169 >>,
      << 0 >>, << 1 >>, << CH.lf >>, << 31 >> }

StringBodies == TokenInputs(StringPieces, MaxPieces)

\* a string literal as an array element and as an object key, closed or not,
\* with what follows it
StringFamily ==
    { << CH.lbracket, CH.quote >> \o body \o tail :
        body \in StringBodies,
        tail \in { << >>, << CH.quote >>, << CH.quote, CH.rbracket >>,
                   << CH.quote, CH.a >> } }
    \cup
    { << CH.lbrace, CH.quote >> \o body \o tail :
        body \in StringBodies,
        tail \in { << CH.quote, CH.colon, CH.quote >> \o body2
                       \o << CH.quote, CH.rbrace >> : body2 \in StringPieces }
                 \cup { << CH.quote, CH.rbrace >> } }

\* number tokens: sign, integer part, fraction, exponent
NumberSigns == { << >>, << CH.minus >> }

NumberInts ==
    { << >>, << CH.zero >>, << CH.zero + 7 >>, << CH.zero, CH.zero + 1 >>,
      Decimal(214748355), Decimal(214748356), Decimal(2147483559),
      Decimal(2147483560), Decimal(2147483599), Decimal(INT_MAX) }

NumberFractions ==
    { << >>, << CH.dot >>, << CH.dot, CH.zero + 5 >>,
      << CH.dot, CH.zero + 2, CH.zero + 5 >> }

NumberExponents ==
    { << >>, << CH.e >>, << CH.E >>, << CH.e, CH.zero + 2 >>,
      << CH.E, CH.minus, CH.zero + 2 >>, << CH.e, CH.plus >>,
      << CH.e, CH.minus >>, << CH.e, CH.plus, CH.zero + 1, CH.zero >> }

NumberTails ==
    { << >>, << CH.rbracket >>, << CH.space, CH.rbracket >>,
      << CH.comma, CH.zero + 1, CH.rbracket >>, << CH.a >> }

NumberFamily ==
    { << CH.lbracket >> \o sign \o int \o frac \o exp \o tail :
        sign \in NumberSigns, int \in NumberInts, frac \in NumberFractions,
        exp \in NumberExponents, tail \in NumberTails }

\* whitespace before a token inside a structure
ShortPads == { << >>, << CH.space >>, << CH.tab, CH.lf >> }

\* the places where a value is expected: after '[', after the ',' of an
\* array, after the ':' of a first and of a second member
ValueContexts ==
    { << CH.lbracket >>,
      << CH.lbracket, CH.zero + 1, CH.comma >>,
      << CH.lbrace, CH.quote, CH.a, CH.quote, CH.colon >>,
      << CH.lbrace, CH.quote, CH.a, CH.quote, CH.colon, CH.zero + 1, CH.comma,
         CH.quote, CH.b, CH.quote, CH.colon >> }

\* what stands where the value is expected
ValueHeads ==
    { << >>, << 0 >>, << 0, CH.rbracket >>, << CH.comma >>,
      << CH.comma, CH.zero + 1, CH.rbracket >>, << CH.rbracket >>,
      << CH.rbrace >>, << CH.colon >>, << CH.a >>, << CH.plus, CH.zero + 1 >>,
      << CH.zero + 1, CH.rbracket >>, << CH.zero + 1, CH.rbrace >>,
      << CH.lbracket, CH.rbracket, CH.rbracket >> }

ValueFamily ==
    { context \o pad \o head :
        context \in ValueContexts, pad \in ShortPads, head \in ValueHeads }

\* the places where a key is expected: after '{' and after the ',' of an
\* object
KeyContexts ==
    { << CH.lbrace >>,
      << CH.lbrace, CH.quote, CH.a, CH.quote, CH.colon, CH.zero + 1, CH.comma >> }

\* what follows a key
KeyTails ==
    { << >>, << 0 >>, << CH.comma >>, << CH.rbrace >>, << CH.quote >>,
      << CH.a >>, << CH.zero + 1 >>, << CH.colon >>,
      << CH.colon, CH.zero + 2, CH.rbrace >>,
      << CH.colon, CH.lbracket, CH.zero + 2, CH.rbracket, CH.rbrace >> }

\* what stands where the key is expected
KeyHeads ==
    { << >>, << 0 >>, << CH.a >>, << CH.zero + 1 >>, << CH.comma >>,
      << CH.colon >>, << CH.rbracket >>, << CH.rbrace >>, << CH.lbrace >> }
    \cup
    { << CH.quote, CH.b, CH.quote >> \o pad \o tail :
        pad \in ShortPads, tail \in KeyTails }

KeyFamily ==
    { context \o pad \o head :
        context \in KeyContexts, pad \in ShortPads, head \in KeyHeads }

\* null, true and false, cut short and misspelt
LiteralWords ==
    { << CH.n, CH.u, CH.l, CH.l >>, << CH.t, CH.r, CH.u, CH.e >>,
      << CH.f, CH.a, CH.l, CH.s, CH.e >> }

LiteralSpellings ==
    UNION { { SubSeq(w, 1, k) : k \in 1 .. Len(w) }
            \cup { [ w EXCEPT ![k] = CH.A ] : k \in 2 .. Len(w) }
            \cup { SubSeq(w, 1, k) \o << CH.rbracket >> : k \in 1 .. Len(w) - 1 }
          : w \in LiteralWords }
    \cup { << CH.n, CH.u, CH.l, CH.l, CH.l >>, << CH.t, CH.r, CH.u, CH.e, CH.e >>,
           << CH.n, CH.a, CH.l, CH.s, CH.e >>, << CH.f, CH.u, CH.l, CH.l >>,
           << CH.t, CH.u, CH.l, CH.l >> }

LiteralTails ==
    { << >>, << CH.rbracket >>, << CH.space, CH.rbracket >>,
      << CH.comma, CH.zero + 1, CH.rbracket >>, << 0, 0, 0, 0 >> }

LiteralTokenFamily ==
    { context \o spelling \o tail :
        context \in { << CH.lbracket >>,
                      << CH.lbracket, CH.zero + 1, CH.comma, CH.space >> },
        spelling \in LiteralSpellings, tail \in LiteralTails }

\* \u and the four bytes h
Escape(h) == << CH.backslash, CH.u >> \o h

\* the hex digits of a high surrogate, of a low surrogate, and of other
\* code units
HighHex == { << 100, 56, 51, 100 >>, << 68, 66, 70, 70 >> }

LowHex == { << 100, 101, 48, 48 >>, << 68, 67, 48, 48 >> }

\* what follows the escape of a high surrogate
AfterHigh ==
    { Escape(h) : h \in LowHex \cup HighHex }
    \cup { Escape(<< CH.zero, CH.zero, CH.zero + 4, CH.zero + 1 >>),
           Escape(<< 100, 102, 102, 102 >>), Escape(<< 101, CH.zero, CH.zero, CH.zero >>),
           Escape(<< 100, 101, CH.zero, 103 >>),
           << CH.backslash, CH.u, 100, 101 >>,
           << CH.backslash, CH.n >>,
           << CH.backslash, CH.backslash, CH.u, 100, 101, 48, 48 >>,
           << CH.a, CH.b, 100, 101, 48, 48 >>,
           << CH.u, CH.backslash, 100, 101, 48, 48 >>,
           << CH.a >>, << >>, << 0 >>, << 226, 130, 172 >> }

\* a high surrogate and what follows it, a low surrogate alone, and code
\* units that decode to one, two and three bytes
EscapePieces ==
    { Escape(h) \o f : h \in HighHex, f \in AfterHigh }
    \cup { Escape(h) : h \in LowHex }
    \cup { Escape(<< CH.zero, CH.zero, CH.zero + 4, CH.zero + 1 >>),
           Escape(<< CH.zero, CH.zero, CH.e, CH.zero + 9 >>),
           Escape(<< CH.zero + 2, CH.zero, CH.a, 99 >>),
           Escape(<< 100, CH.zero + 7, 102, 102 >>),
           Escape(<< CH.zero + 2, CH.zero, CH.a >>) }

\* bytes with the high bit set: characters of two, three and four bytes,
\* each with one of its bytes replaced and cut short, and bytes that start
\* no character
Utf8Characters == { << 195, 169 >>, << 226, 130, 172 >>, << 240, 159, 152, 128 >>,
                    << 223, 191 >>, << 239, 128, 191 >>, << 247, 191, 128, 191 >> }

Utf8Pieces ==
    UNION { { c } \cup { SubSeq(c, 1, k) : k \in 1 .. Len(c) - 1 }
                  \cup { [ c EXCEPT ![k] = b ] : k \in 2 .. Len(c),
                                                   b \in { CH.a, 192, 127 } }
          : c \in Utf8Characters }
    \cup { << 128 >>, << 191 >>, << 128, 128 >>, << 191, 169 >>, << 128, CH.a >>,
           << 248 >>, << 255 >>, << 248, 128, 128, 128, 128 >>,
           << 192, 128 >>, << 224, 128, 128 >> }

\* a string literal with one or two of these pieces after a plain byte or
\* after an escape, closed or not, as an element and as a key
UnicodeLeads == { << >>, << CH.a >>, << CH.backslash, CH.t >> }

UnicodeTails ==
    { << >>, << CH.quote >>, << CH.quote, CH.rbracket >>,
      << CH.a, CH.b, CH.a, CH.b, CH.quote, CH.rbracket >> }

DecodedPieces ==
    { << CH.backslash, CH.slash >>,
      Escape(<< CH.zero, CH.zero, CH.zero + 4, CH.zero + 1 >>),
      Escape(<< CH.zero, CH.zero, CH.e, CH.zero + 9 >>),
      Escape(<< CH.zero + 2, CH.zero, CH.a, 99 >>),
      Escape(<< 100, 56, 51, 100 >>) \o Escape(<< 100, 101, 48, 48 >>),
      << 195, 169 >>, << 226, 130, 172 >>, << 240, 159, 152, 128 >>, << CH.a >> }

UnicodeFamily ==
    { << CH.lbracket, CH.quote >> \o lead \o piece \o tail :
        lead \in UnicodeLeads, piece \in EscapePieces \cup Utf8Pieces,
        tail \in UnicodeTails }
    \cup
    { << CH.lbracket, CH.quote >> \o one \o two \o tail :
        one \in DecodedPieces, two \in DecodedPieces,
        tail \in { << CH.quote, CH.rbracket >> } }
    \cup
    { << CH.lbrace, CH.quote >> \o piece \o << CH.quote, CH.colon, CH.zero + 1,
                                              CH.rbrace >> :
        piece \in DecodedPieces \cup { << 128, 128 >> } }

\* n digits 0
Zeros(n) == [ k \in 1 .. n |-> CH.zero ]

\* number tokens at the edges of the double: a zero with an exponent past
\* every power of ten, exponents of ten and of eleven digits, a significand
\* of 310 digits
\* with and without an exponent, and a fraction of 324 digits
ExtremeNumbers ==
    { << CH.zero, CH.e, CH.zero + 4, CH.zero, CH.zero >>,
      << CH.zero, CH.dot, CH.zero, CH.e >> \o Decimal(999999999) \o << CH.zero + 9 >>,
      << CH.zero + 1, CH.e >> \o Decimal(999999999) \o << CH.zero + 9 >>,
      << CH.zero + 1, CH.e, CH.minus >> \o Decimal(999999999)
          \o << CH.zero + 9, CH.zero + 9 >>,
      << CH.zero + 1 >> \o Zeros(309),
      << CH.zero + 1 >> \o Zeros(309) \o << CH.e, CH.zero + 4, CH.zero, CH.zero >>,
      << CH.zero + 1 >> \o Zeros(309)
          \o << CH.e, CH.minus, CH.zero + 4, CH.zero, CH.zero >>,
      << CH.minus, CH.zero + 1 >> \o Zeros(309)
          \o << CH.e, CH.minus, CH.zero + 4, CH.zero, CH.zero >>,
      << CH.zero + 1 >> \o Zeros(308)
          \o << CH.e, CH.minus, CH.zero + 4, CH.zero, CH.zero >>,
      << CH.zero + 1, CH.dot >> \o Zeros(324),
      << CH.zero + 1, CH.dot >> \o Zeros(323) }

ExtremeNumberFamily ==
    { << CH.lbracket >> \o number \o << CH.rbracket >> : number \in ExtremeNumbers }

ScanInputs ==
    RootFamily \cup TrailFamily \cup StringFamily \cup NumberFamily
        \cup ValueFamily \cup KeyFamily \cup LiteralTokenFamily
        \cup UnicodeFamily \cup ExtremeNumberFamily

InitScan == \E text \in ScanInputs : InitWith(text, Len(text))

SpecScan == InitScan /\ [][Next]_vars

(***************************************************************************)
(* The reference: JSON texts (RFC 8259) over structural bytes, whitespace, *)
(* the three literals, integers and strings of unescaped characters, read  *)
(* by recursive descent into a value tree.  Positions are 1-based indices. *)
(***************************************************************************)
RefAt(s, i) == IF i >= 1 /\ i <= Len(s) THEN s[i] ELSE 0 - 1

RefIsWs(c) == c \in { CH.space, CH.tab, CH.lf, CH.cr }

RECURSIVE RefWs(_, _)
RefWs(s, i) == IF RefIsWs(RefAt(s, i)) THEN RefWs(s, i + 1) ELSE i

RefNo == [ ok |-> FALSE, i |-> 0, v |-> VNull ]
RefYes(i, v) == [ ok |-> TRUE, i |-> i, v |-> v ]

RefHas(s, i, word) ==
    /\ i + Len(word) - 1 <= Len(s)
    /\ \A k \in 1 .. Len(word) : s[i + k - 1] = word[k]

RefIsDigit(c) == c >= 48 /\ c <= 57

RECURSIVE RefDigits(_, _, _)
RefDigits(s, i, acc) ==
    IF RefIsDigit(RefAt(s, i)) THEN RefDigits(s, i + 1, acc * 10 + (s[i] - 48))
    ELSE RefYes(i, VInt(acc))

\* int = zero / ( digit1-9 *DIGIT ), with an optional minus
RefNumber(s, i) ==
    LET neg == RefAt(s, i) = 45
        j == IF neg THEN i + 1 ELSE i
        c == RefAt(s, j)
        r == IF c = 48 THEN RefYes(j + 1, VInt(0))
             ELSE IF RefIsDigit(c) THEN RefDigits(s, j, 0)
             ELSE RefNo
    IN  IF r.ok /\ neg THEN RefYes(r.i, VInt(0 - r.v.int)) ELSE r

\* unescaped = %x20-21 / %x23-5B / %x5D-10FFFF; i is the opening quote
RECURSIVE RefChars(_, _, _)
RefChars(s, i, acc) ==
    LET c == RefAt(s, i) IN
    IF c = 34 THEN RefYes(i + 1, VStr(acc))
    ELSE IF c < 32 \/ c = 92 THEN RefNo
    ELSE RefChars(s, i + 1, Append(acc, c))

RefString(s, i) == IF RefAt(s, i) = 34 THEN RefChars(s, i + 1, << >>) ELSE RefNo

RECURSIVE RefValue(_, _), RefElements(_, _), RefMembers(_, _)
\* value, with i at its first byte
RefValue(s, i) ==
    LET c == RefAt(s, i) IN
    IF c = 110 THEN (IF RefHas(s, i, << 110, 117, 108, 108 >>)
                     THEN RefYes(i + 4, VNull) ELSE RefNo)
    ELSE IF c = 116 THEN (IF RefHas(s, i, << 116, 114, 117, 101 >>)
                          THEN RefYes(i + 4, VTrue) ELSE RefNo)
    ELSE IF c = 102 THEN (IF RefHas(s, i, << 102, 97, 108, 115, 101 >>)
                          THEN RefYes(i + 5, VFalse) ELSE RefNo)
    ELSE IF c = 45 \/ RefIsDigit(c) THEN RefNumber(s, i)
    ELSE IF c = 34 THEN RefString(s, i)
    ELSE IF c = 91
         THEN LET j == RefWs(s, i + 1) IN
              IF RefAt(s, j) = 93 THEN RefYes(j + 1, VArr(<< >>))
              ELSE RefElements(s, [ i |-> j, acc |-> << >> ])
    ELSE IF c = 123
         THEN LET j == RefWs(s, i + 1) IN
              IF RefAt(s, j) = 125 THEN RefYes(j + 1, VObj(<< >>))
              ELSE RefMembers(s, [ i |-> j, acc |-> << >> ])
    ELSE RefNo

\* value *( ws "," ws value ) ws "]", with l.i at the first byte of a value;
\* l carries the position and the elements read so far
RefElements(s, l) ==
    LET r == RefValue(s, l.i)
        j == RefWs(s, r.i)
        es == Append(l.acc, r.v)
    IN  IF r.ok /\ RefAt(s, j) = 44
        THEN RefElements(s, [ i |-> RefWs(s, j + 1), acc |-> es ])
        ELSE IF r.ok /\ RefAt(s, j) = 93 THEN RefYes(j + 1, VArr(es)) ELSE RefNo

\* member = string ws ":" ws value, with i at its first byte
RefMember(s, i) ==
    LET k == RefString(s, i)
        c == RefWs(s, k.i)
        r == RefValue(s, RefWs(s, c + 1))
    IN  IF k.ok /\ RefAt(s, c) = 58 /\ r.ok
        THEN RefYes(r.i, [ key |-> k.v.str, value |-> r.v ])
        ELSE RefNo

\* member *( ws "," ws member ) ws "}"
RefMembers(s, l) ==
    LET m == RefMember(s, l.i)
        j == RefWs(s, m.i)
        ms == Append(l.acc, m.v)
    IN  IF m.ok /\ RefAt(s, j) = 44
        THEN RefMembers(s, [ i |-> RefWs(s, j + 1), acc |-> ms ])
        ELSE IF m.ok /\ RefAt(s, j) = 125 THEN RefYes(j + 1, VObj(ms)) ELSE RefNo

\* JSON-text = ws value ws, the value an array or an object
RefDocument(s) ==
    LET r == RefValue(s, RefWs(s, 1)) IN
    IF r.ok /\ r.v.kind \in { "array", "object" } /\ RefWs(s, r.i) = Len(s) + 1
    THEN r
    ELSE RefNo

\* C2: a finished parse with a large enough arena is valid exactly when the
\* source text is a JSON text of the reference grammar rooted at an array
\* or an object
C2_ValidIffGrammar ==
    (ip = "done" /\ existing_buffer_size >= Len(source))
        => (is_valid(doc) <=> RefDocument(source).ok)

(***************************************************************************)
(* The outcome of a parse.                                                 *)
(***************************************************************************)
\* parse() ran: make_allocator accepted the buffer
Ran == existing_buffer_size >= Len(source)

Finished == ip = "done"

\* C1: a finished parse with an arena of at least input-length words ends
\* in a valid document rooted at an array or an object, or in an invalid
\* one with a non-empty message, error_line >= 1 and error_column >= 1
C1_ValidOrDiagnosed ==
    (Finished /\ Ran) =>
        \/ /\ is_valid(doc)
           /\ doc.root_tag \in { TAG.array, TAG.object }
           /\ doc.error_code = "ERROR_NO_ERROR"
        \/ /\ ~is_valid(doc)
           /\ doc.error_code \in Errors \ { "ERROR_NO_ERROR", "ERROR_UNINITIALIZED" }
           /\ doc.formatted_error_message # << >>
           /\ doc.formatted_error_message[1] # ""
           /\ doc.error_line >= 1
           /\ doc.error_column >= 1

\* a failed parse whose error lies past the first column
C1_Witness ==
    Finished /\ Ran /\ ~is_valid(doc) /\ doc.error_column > 1
        /\ doc.formatted_error_message # << >>

\* C3: once parse() has reported an error, the document returned is invalid,
\* has a null root tag and a null root, and carries the code, the argument
\* and the position make_error recorded, also when the root was installed
\* and root_tag set before the error
C3_FirstErrorWins ==
    /\ (ip = "return" /\ ~parse_result) =>
            /\ error_code \in Errors \ { "ERROR_NO_ERROR", "ERROR_UNINITIALIZED" }
            /\ error_line >= 1
            /\ error_column >= 1
    /\ (Finished /\ Ran /\ ~parse_result) =>
            /\ ~is_valid(doc)
            /\ doc.root_tag = TAG.null
            /\ doc.root = NULL
            /\ doc.error_code = error_code
            /\ doc.error_arg = error_arg
            /\ doc.error_line = error_line
            /\ doc.error_column = error_column

\* input after the root: root_tag was set, and the document is invalid
C3_Witness ==
    Finished /\ Ran /\ root_tag \in { TAG.array, TAG.object }
        /\ doc.error_code = "ERROR_EXPECTED_END_OF_INPUT" /\ doc.root_tag = TAG.null

(***************************************************************************)
(* The two stacks of the arena.                                            *)
(***************************************************************************)
\* the faults that are a meeting or a crossing of the two stacks
Crossings ==
    faults \cap { "scratch store into the AST", "AST reserve into the scratch stack" }

\* C4: in an arena of n words for an input of n bytes the AST write cursor
\* stays at or above the arena start, no store goes outside the word
\* indices [0, n), and at most n AST words are reserved
C4_Bounded ==
    (Ran /\ ip # "parse") =>
        /\ write_cursor >= 0
        /\ "store outside the arena" \notin faults
        /\ structure_end - write_cursor <= Len(source)
        /\ structure_end = Len(source)

\* a parse that reserved every word of the arena for the AST
C4_Witness ==
    Finished /\ Ran /\ Len(source) > 0 /\ write_cursor = 0 /\ is_valid(doc)

C7_SmallArena ==
    ~Ran =>
        /\ ip \in { "parse", "done" }
        /\ input = source
        /\ \A i \in DOMAIN arena : arena[i] = UNWRITTEN
        /\ stack_top = 0
        /\ faults = {}
        /\ Finished =>
            /\ ~is_valid(doc)
            /\ doc.error_code = "ERROR_OUT_OF_MEMORY"
            /\ doc.error_line = 1
            /\ doc.error_column = 1
            /\ doc.formatted_error_message = << get_error_text("ERROR_OUT_OF_MEMORY") >>

\* a JSON text refused for an arena one word short
C7_Witness ==
    Finished /\ ~Ran /\ RefDocument(source).ok
        /\ doc.error_code = "ERROR_OUT_OF_MEMORY"

(***************************************************************************)
(* The document read back through the navigation API.                      *)
(***************************************************************************)
VDouble(d) == [ kind |-> "double", int |-> 0, str |-> << >>, items |-> << d >> ]

\* the value tree that get_length, get_array_element, get_object_key,
\* get_object_value, get_integer_value and as_string show below v
RECURSIVE Decode(_, _, _)
Decode(a, s, v) ==
    CASE v.value_tag = TAG.null -> VNull
      [] v.value_tag = TAG.true_ -> VTrue
      [] v.value_tag = TAG.false_ -> VFalse
      [] v.value_tag = TAG.integer -> VInt(get_integer_value(a, v))
      [] v.value_tag = TAG.double_ -> VDouble(a[v.payload])
      [] v.value_tag = TAG.string -> VStr(as_string(a, s, v))
      [] v.value_tag = TAG.array ->
            VArr([ i \in 1 .. get_length(a, v) |->
                     Decode(a, s, get_array_element(a, v, i - 1)) ])
      [] v.value_tag = TAG.object ->
            VObj([ i \in 1 .. get_length(a, v) |->
                     [ key |-> get_object_key(a, s, v, i - 1),
                       value |-> Decode(a, s, get_object_value(a, v, i - 1)) ] ])

\* two value trees are the same value: arrays element by element, objects
\* as multisets of members
RECURSIVE Same(_, _)
SameMember(m, n) == m.key = n.key /\ Same(m.value, n.value)

Same(x, y) ==
    /\ x.kind = y.kind
    /\ x.int = y.int
    /\ x.str = y.str
    /\ Len(x.items) = Len(y.items)
    /\ CASE x.kind = "array" ->
                \A i \in 1 .. Len(x.items) : Same(x.items[i], y.items[i])
         [] x.kind = "object" ->
                \A i \in 1 .. Len(x.items) :
                    Cardinality({ k \in 1 .. Len(x.items) :
                                    SameMember(x.items[k], x.items[i]) })
                        = Cardinality({ k \in 1 .. Len(y.items) :
                                          SameMember(y.items[k], x.items[i]) })
         [] OTHER -> x.items = y.items

TagOf(r) ==
    CASE r.kind = "null" -> TAG.null
      [] r.kind = "true" -> TAG.true_
      [] r.kind = "false" -> TAG.false_
      [] r.kind = "integer" -> TAG.integer
      [] r.kind = "double" -> TAG.double_
      [] r.kind = "string" -> TAG.string
      [] r.kind = "array" -> TAG.array
      [] r.kind = "object" -> TAG.object

\* every array below v is the array of the source value r at that place:
\* its length, and element by element the tag and the payload; objects are
\* gone through member by member to reach the arrays inside them
RECURSIVE ArraysAgree(_, _, _, _)
ArraysAgree(a, s, v, r) ==
    CASE r.kind = "array" ->
            /\ v.value_tag = TAG.array
            /\ get_length(a, v) = Len(r.items)
            /\ \A i \in 1 .. Len(r.items) :
                 LET e == get_array_element(a, v, i - 1) IN
                 /\ e.value_tag = TagOf(r.items[i])
                 /\ Same(Decode(a, s, e), r.items[i])
                 /\ ArraysAgree(a, s, e, r.items[i])
      [] r.kind = "object" ->
            (v.value_tag = TAG.object /\ get_length(a, v) = Len(r.items)) =>
                \A j \in 1 .. Len(r.items) :
                    \E i \in 1 .. Len(r.items) :
                        /\ get_object_key(a, s, v, i - 1) = r.items[j].key
                        /\ ArraysAgree(a, s, get_object_value(a, v, i - 1),
                                       r.items[j].value)
      [] OTHER -> TRUE

\* the root value of the finished, valid document and the source's value
Root == get_root(doc)
SourceValue == RefDocument(source).v

\* C8: in a valid document every array, at any depth, has the length of the
\* array in the source text, and its i-th element has the tag of the i-th
\* source element and a payload that reads back as that element
C8_ArraysAsInSource ==
    (Finished /\ is_valid(doc)) => ArraysAgree(arena, input, Root, SourceValue)

\* an array inside an array, both with elements, read back
C8_Witness ==
    /\ Finished /\ is_valid(doc) /\ doc.root_tag = TAG.array
    /\ get_length(arena, Root) >= 2
    /\ \E i \in 0 .. get_length(arena, Root) - 1 :
         LET e == get_array_element(arena, Root, i) IN
         e.value_tag = TAG.array /\ get_length(arena, e) >= 1

\* every object below v is the object of the source value r at that place:
\* its length, and its members as a multiset of (key, value)
RECURSIVE ObjectsAgree(_, _, _, _)
ObjectsAgree(a, s, v, r) ==
    CASE r.kind = "object" ->
            /\ v.value_tag = TAG.object
            /\ get_length(a, v) = Len(r.items)
            /\ LET members == Decode(a, s, v).items IN
               \A i \in 1 .. Len(r.items) :
                   Cardinality({ k \in 1 .. Len(members) :
                                   SameMember(members[k], members[i]) })
                       = Cardinality({ k \in 1 .. Len(r.items) :
                                         SameMember(r.items[k], members[i]) })
            /\ \A j \in 1 .. Len(r.items) :
                   \E i \in 1 .. Len(r.items) :
                       /\ get_object_key(a, s, v, i - 1) = r.items[j].key
                       /\ ObjectsAgree(a, s, get_object_value(a, v, i - 1),
                                       r.items[j].value)
      [] r.kind = "array" ->
            (v.value_tag = TAG.array /\ get_length(a, v) = Len(r.items)) =>
                \A i \in 1 .. Len(r.items) :
                    ObjectsAgree(a, s, get_array_element(a, v, i - 1), r.items[i])
      [] OTHER -> TRUE

\* C9: in a valid document every object, at any depth, has as many members
\* as the object in the source text, and the (key, value) pairs read through
\* get_object_key and get_object_value are, as a multiset, the members of
\* the source, sorted record or not
C9_MembersAsInSource ==
    (Finished /\ is_valid(doc)) => ObjectsAgree(arena, input, Root, SourceValue)

\* the members of a sorted record, in another order than the source's
C9_Witness ==
    /\ Finished /\ is_valid(doc) /\ doc.root_tag = TAG.object
    /\ should_binary_search(get_length(arena, Root))
    /\ \E i \in 1 .. get_length(arena, Root) :
         get_object_key(arena, input, Root, i - 1) # SourceValue.items[i].key

\* v and every value below it
RECURSIVE ValuesBelow(_, _)
ValuesBelow(a, v) ==
    { v } \cup
    (CASE v.value_tag = TAG.array ->
            UNION { ValuesBelow(a, get_array_element(a, v, i)) :
                        i \in 0 .. get_length(a, v) - 1 }
       [] v.value_tag = TAG.object ->
            UNION { ValuesBelow(a, get_object_value(a, v, i)) :
                        i \in 0 .. get_length(a, v) - 1 }
       [] OTHER -> {})

\* the keys looked up: those of the object itself, keys of the generated
\* objects whether present or not, and keys no input has
ProbeKeys(a, s, v) ==
    { get_object_key(a, s, v, i) : i \in 0 .. get_length(a, v) - 1 }
        \cup { BigKey(i) : i \in 0 .. 12 }
        \cup { << >>, << CH.a >>, << CH.b >>, << CH.a, CH.a >>, << CH.u, CH.u >>,
               << CH.a, CH.b, CH.a >> }

\* find_object_key and get_value_of_key on object v with key
LookupAgrees(a, s, v, key) ==
    LET length == get_length(a, v)
        i == find_object_key(a, s, v, key)
        found == get_value_of_key(a, s, v, key)
        holders == { j \in 0 .. length - 1 : get_object_key(a, s, v, j) = key }
    IN  /\ (i = length) <=> (holders = {})
        /\ i # length => i \in holders
        /\ IF holders = {} THEN found = value(TAG.null, NULL)
           ELSE found = get_object_value(a, v, i)

\* C10: on every object of a valid document and for every key,
\* find_object_key returns the length exactly when no key of the object
\* equals the key byte for byte, and otherwise an index below the length
\* whose key equals it; get_value_of_key returns the value at that index, or
\* a null value on a miss; on the linear path and on the binary-search path
C10_LookupFindsKey ==
    (Finished /\ is_valid(doc)) =>
        \A v \in ValuesBelow(arena, Root) :
            v.value_tag = TAG.object =>
                \A key \in ProbeKeys(arena, input, v) :
                    LookupAgrees(arena, input, v, key)

\* a sorted record with a key held twice, found by the binary search, and a
\* key it does not hold
C10_Witness ==
    /\ Finished /\ is_valid(doc) /\ doc.root_tag = TAG.object
    /\ should_binary_search(get_length(arena, Root))
    /\ \E i, j \in 0 .. get_length(arena, Root) - 1 :
         /\ i # j
         /\ get_object_key(arena, input, Root, i) = get_object_key(arena, input, Root, j)
         /\ find_object_key(arena, input, Root, get_object_key(arena, input, Root, i))
                \in { i, j }
    /\ find_object_key(arena, input, Root, << CH.u, CH.u >>) = get_length(arena, Root)

\* an object with a member, accepted by the parser and by the grammar
C2_Witness ==
    /\ Finished /\ Ran /\ is_valid(doc) /\ RefDocument(source).ok
    /\ doc.root_tag = TAG.object
    /\ get_length(arena, Root) >= 1

(***************************************************************************)
(* Sorted object records.                                                  *)
(***************************************************************************)
\* key x orders before key y: by length, then by memcmp of the bytes
KeyBefore(x, y) ==
    \/ Len(x) < Len(y)
    \/ (Len(x) = Len(y) /\ memcmp_negative(x, y))

\* the key records of object v are in non-decreasing order
RecordSorted(a, s, v) ==
    \A i \in 0 .. get_length(a, v) - 2 :
        ~KeyBefore(get_object_key(a, s, v, i + 1), get_object_key(a, s, v, i))

\* C11: the record install_object has just written carries the member count
\* it decided the sort on, and in a valid document every object on which
\* find_object_key takes the binary search (should_binary_search of its
\* length word) has its key records in non-decreasing order of key length
\* and then of memcmp of the key bytes
C11_SortedWhenSearched ==
    /\ (Ran /\ ip = "pop" /\ current_structure_tag = TAG.object) =>
            arena[write_cursor] = FrameMembers
    /\ (Finished /\ is_valid(doc)) =>
            \A v \in ValuesBelow(arena, Root) :
                (v.value_tag = TAG.object
                    /\ should_binary_search(get_length(arena, v)))
                    => RecordSorted(arena, input, v)

\* a sorted record below the root whose source had a longer key before a
\* shorter one
C11_Witness ==
    /\ Finished /\ is_valid(doc) /\ doc.root_tag = TAG.array
    /\ \E v \in ValuesBelow(arena, Root) :
         /\ v.value_tag = TAG.object
         /\ should_binary_search(get_length(arena, v))
         /\ RecordSorted(arena, input, v)
         /\ \E i \in 1 .. Len(SourceValue.items[2].items) - 1 :
              KeyBefore(SourceValue.items[2].items[i + 1].key,
                        SourceValue.items[2].items[i].key)

(***************************************************************************)
(* Positions in the text the caller supplied.  k is a byte offset.         *)
(***************************************************************************)
\* 1 plus the line breaks among the bytes [0, k) of s: every LF, and every
\* CR that is not followed, inside [0, k), by an LF
RefLine(s, k) ==
    1 + Cardinality({ j \in 1 .. k :
                        \/ s[j] = 10
                        \/ (s[j] = 13 /\ ~(j + 1 <= k /\ s[j + 1] = 10)) })

\* 1 plus the bytes between the last line break before offset k and k
RefColumn(s, k) ==
    LET breaks == { j \in 1 .. k : s[j] = 10 \/ s[j] = 13 }
        last == IF breaks = {} THEN 0
                ELSE CHOOSE j \in breaks : \A i \in breaks : i <= j
    IN  1 + (k - last)

\* C12: a finished parse of an input that is empty or all whitespace is
\* invalid with MISSING_ROOT_ELEMENT; one whose first byte that is not
\* whitespace is neither '[' nor '{' is invalid with BAD_ROOT, at the line
\* and column of that byte in the input
C12_RootErrors ==
    (Finished /\ Ran) =>
        LET q == RefWs(source, 1) IN
        /\ q > Len(source) =>
              /\ ~is_valid(doc)
              /\ doc.error_code = "ERROR_MISSING_ROOT_ELEMENT"
        /\ (q <= Len(source) /\ source[q] \notin { 91, 123 }) =>
              /\ ~is_valid(doc)
              /\ doc.error_code = "ERROR_BAD_ROOT"
              /\ doc.error_line = RefLine(source, q - 1)
              /\ doc.error_column = RefColumn(source, q - 1)

\* a bad root on the second line, after a lone CR and a space
C12_Witness ==
    /\ Finished /\ Ran
    /\ doc.error_code = "ERROR_BAD_ROOT"
    /\ doc.error_line = 2 /\ doc.error_column = 2
    /\ source[1] = 13

(***************************************************************************)
(* Input after the root.                                                   *)
(***************************************************************************)
\* the parse has left in the buffer the line breaks of the source, and no
\* others
LineBreaksKept ==
    \A j \in 1 .. Len(source) :
        (input[j] \in { 10, 13 } \/ source[j] \in { 10, 13 }) => input[j] = source[j]

\* the root's frame is being popped: p is just past its closing byte
RootCloses == ip = "pop" /\ get_element_value(pop_element) = ROOT_MARKER

\* the 1-based indices of the bytes from offset k on that are not whitespace
NotWsFrom(k) == { j \in k + 1 .. Len(source) : ~RefIsWs(source[j]) }

\* C13: when the root closes, parse() returns true iff every byte left is a
\* tab, LF, CR or space; otherwise it fails with EXPECTED_END_OF_INPUT at
\* the first byte that is not, whatever that byte is; and the document
\* returned for an input whose root closed is valid in the first case and
\* carries that error in the second
C13_TrailingInput ==
    /\ [][ RootCloses =>
             /\ ip' = "return"
             /\ parse_result' <=> (NotWsFrom(p) = {})
             /\ NotWsFrom(p) # {} =>
                  LET k == (CHOOSE j \in NotWsFrom(p) : \A i \in NotWsFrom(p) : j <= i) - 1
                  IN  /\ error_code' = "ERROR_EXPECTED_END_OF_INPUT"
                      /\ error_p' = k
                      /\ LineBreaksKept =>
                           /\ error_line' = RefLine(source, k)
                           /\ error_column' = RefColumn(source, k) ]_vars
    /\ [](( Finished /\ Ran /\ root_tag # TAG.null ) =>
            /\ is_valid(doc) <=> parse_result
            /\ ~parse_result =>
                 /\ doc.error_code = "ERROR_EXPECTED_END_OF_INPUT"
                 /\ doc.error_line = error_line
                 /\ doc.error_column = error_column)

\* a NUL on the line after the root
C13_Witness ==
    /\ Finished /\ Ran /\ root_tag # TAG.null
    /\ doc.error_code = "ERROR_EXPECTED_END_OF_INPUT"
    /\ source[error_p + 1] = 0
    /\ doc.error_line >= 2

(***************************************************************************)
(* The position of an error.                                               *)
(***************************************************************************)
\* C14, as stated: a failed parse whose error is at byte offset k reports
\* the line and the column of offset k in the text the caller supplied: 1
\* plus the line breaks among its bytes [0, k), and 1 plus the bytes between
\* the last of them and k, whatever the strings before k decoded to
C14_PositionFromSource ==
    (Finished /\ Ran /\ ~parse_result) =>
        /\ doc.error_line = RefLine(source, error_p)
        /\ doc.error_column = RefColumn(source, error_p)

\* the input ["\n"a : EXPECTED_COMMA at offset 5, which is line 1, column 6
\* of the text supplied, reported at line 2, column 3, because the walk of
\* make_error reads the LF that parse_string_slow wrote at offset 2
C14_Witness ==
    /\ Finished /\ Ran
    /\ source = << CH.lbracket, CH.quote, CH.backslash, CH.n, CH.quote, CH.a >>
    /\ doc.error_code = "ERROR_EXPECTED_COMMA"
    /\ error_p = 5
    /\ RefLine(source, error_p) = 1 /\ RefColumn(source, error_p) = 6
    /\ doc.error_line = 2 /\ doc.error_column = 3

(***************************************************************************)
(* Bytes below 0x20 in string literals.                                    *)
(***************************************************************************)
\* the escapes of RFC 8259 whose second byte is c
RefIsEscape(c) == c \in { 34, 92, 47, 98, 102, 110, 114, 116 }

RefIsHex(c) == (c >= 48 /\ c <= 57) \/ (c >= 65 /\ c <= 70) \/ (c >= 97 /\ c <= 102)

\* what ends the run of well-formed characters of a string literal, i the
\* 1-based index of its first byte after the opening quote: the closing
\* quote, a byte below 0x20, or something else (the end of the input, a
\* malformed escape, a byte that is not ASCII and does not start a two-byte
\* character); at is the index of that byte
RECURSIVE RefLiteral(_, _)
RefLiteral(s, i) ==
    LET c == RefAt(s, i) IN
    IF i > Len(s) THEN [ kind |-> "other", at |-> i ]
    ELSE IF c < 32 THEN [ kind |-> "control", at |-> i ]
    ELSE IF c = 34 THEN [ kind |-> "closed", at |-> i ]
    ELSE IF c = 92
    THEN IF RefIsEscape(RefAt(s, i + 1)) THEN RefLiteral(s, i + 2)
         ELSE IF RefAt(s, i + 1) = 117
                 /\ \A k \in 2 .. 5 : RefIsHex(RefAt(s, i + k))
                 /\ RefAt(s, i + 2) # 100 /\ RefAt(s, i + 2) # 68
         THEN RefLiteral(s, i + 6)
         ELSE [ kind |-> "other", at |-> i ]
    ELSE IF c < 128 THEN RefLiteral(s, i + 1)
    ELSE IF c >= 192 /\ c < 224 /\ RefAt(s, i + 1) >= 128 /\ RefAt(s, i + 1) < 192
    THEN RefLiteral(s, i + 2)
    ELSE [ kind |-> "other", at |-> i ]

\* the 1-based index of the first byte from offset p on that is not
\* whitespace: the first byte of the token the parser is about to read
TokenAt == RefWs(source, p + 1)

\* control is where a string literal starts: an object key or a string
\* value is about to be parsed, the opening quote at index TokenAt

StartsLiteral ==
    /\ ip \in { "next_element", "object_key" }
    /\ RefAt(source, TokenAt) = 34

BeginWords(a, v) ==
    UNION { CASE w.value_tag = TAG.string -> { w.payload }
              [] w.value_tag = TAG.object ->
                    { w.payload + 1 + 3 * i : i \in 0 .. get_length(a, w) - 1 }
              [] OTHER -> {}
            : w \in ValuesBelow(a, v) }

\* the view [a[k], a[k + 1]) lies inside the buffer s and ends at a NUL
ViewInside(a, s, k) ==
    /\ 0 <= a[k]
    /\ a[k] <= a[k + 1]
    /\ a[k + 1] < Len(s)
    /\ s[a[k + 1] + 1] = 0

\* C16: in a valid document the two words of every string value and of
\* every object key satisfy 0 <= begin <= end < input length, and the input
\* byte at offset end is NUL
C16_ViewsInsideInput ==
    (Finished /\ is_valid(doc)) =>
        \A k \in BeginWords(arena, Root) : ViewInside(arena, input, k)

\* a key and a string value whose end lies before the closing quote, the
\* literal having been compacted by parse_string_slow
C16_Witness ==
    /\ Finished /\ is_valid(doc) /\ doc.root_tag = TAG.object
    /\ get_length(arena, Root) = 1
    /\ get_object_value(arena, Root, 0).value_tag = TAG.string
    /\ \A k \in BeginWords(arena, Root) :
         /\ ViewInside(arena, input, k)
         /\ source[arena[k + 1] + 1] # CH.quote

(***************************************************************************)
(* Number tokens.                                                          *)
(***************************************************************************)
\* the bytes a number token is made of
RefIsNumberByte(c) == RefIsDigit(c) \/ c \in { 43, 45, 46, 69, 101 }

\* the 1-based index of the first byte of the run of number bytes that ends
\* just before offset k
RefTokenStart(s, k) ==
    LET others == { j \in 1 .. k : ~RefIsNumberByte(s[j]) }
    IN  IF others = {} THEN 1
        ELSE (CHOOSE j \in others : \A i \in others : i <= j) + 1

\* the decimal value of the digits s[i .. j]
RECURSIVE RefDecimal(_, _, _)
RefDecimal(s, i, j) ==
    IF j < i THEN 0 ELSE 10 * RefDecimal(s, i, j - 1) + (s[j] - 48)

\* the token that ends just before offset k: its sign, the indices of its
\* integer digits, whether a fraction or an exponent follows them
RefToken(s, k) ==
    LET start == RefTokenStart(s, k)
        negative == s[start] = 45
        first == IF negative THEN start + 1 ELSE start
        stops == { j \in first .. k : ~RefIsDigit(s[j]) } \cup { k + 1 }
        last == (CHOOSE j \in stops : \A i \in stops : j <= i) - 1
    IN  [ negative |-> negative, first |-> first, last |-> last,
          fraction |-> \E j \in start .. k : s[j] = 46,
          exponent |-> \E j \in start .. k : s[j] \in { 69, 101 } ]

\* some digit of the integer part is consumed with the digits before it
\* worth more than INT_MAX / 10 - 9
RefPromoted(s, tok) ==
    \E j \in tok.first .. tok.last :
        RefDecimal(s, tok.first, j - 1) > 214748355

\* parse_number has returned: the payload word is at write_cursor, p is just
\* past the token
NumberStored == ip = "push_value" /\ value_tag_result \in { TAG.integer, TAG.double_ }

\* C17: a number token is stored with the integer tag iff it has no
\* fraction, no exponent, and no digit of it is consumed with an
\* accumulator above INT_MAX / 10 - 9, and otherwise with the double tag;
\* an integer's payload is the decimal value of the token, negated after a
\* minus, and it is a 32-bit int
C17_IntegerOrDouble ==
    (Ran /\ NumberStored) =>
        LET tok == RefToken(source, p)
            integer == ~tok.fraction /\ ~tok.exponent /\ ~RefPromoted(source, tok)
        IN  /\ value_tag_result = (IF integer THEN TAG.integer ELSE TAG.double_)
            /\ integer =>
                 /\ arena[write_cursor]
                        = (IF tok.negative THEN 0 - RefDecimal(source, tok.first, tok.last)
                           ELSE RefDecimal(source, tok.first, tok.last))
                 /\ arena[write_cursor] >= 0 - INT_MAX - 1
                 /\ arena[write_cursor] <= INT_MAX

\* 2147483560, which an int holds, stored as a double: its last digit is
\* consumed with the accumulator at 214748356
C17_Witness ==
    /\ Ran /\ NumberStored
    /\ value_tag_result = TAG.double_
    /\ SubSeq(source, 2, p) = Decimal(2147483560)

\* the index of the first byte from i on that is not a digit
RefDigitsEnd(s, i) ==
    LET others == { j \in i .. Hi(i, Len(s) + 1) : ~RefIsDigit(RefAt(s, j)) }
    IN  CHOOSE j \in others : \A k \in others : j <= k

RefOutcome(code, at) == [ code |-> code, at |-> at ]

\* what a number token whose first byte (a digit or '-') is at index q must
\* come to, and at which index: the end of the input anywhere in it or
\* right after it is UNEXPECTED_END; a '-' or a '.' followed by a byte that
\* is not a digit is INVALID_NUMBER; an 'e' or 'E', with its sign if any,
\* followed by a byte that is not a digit is MISSING_EXPONENT; otherwise the
\* token ends at the first byte after its last digit
RefNumberOutcome(s, q) ==
    LET m == IF s[q] = 45 THEN q + 1 ELSE q
        int_end == IF RefAt(s, m) = 48 THEN m + 1 ELSE RefDigitsEnd(s, m)
        dot == RefAt(s, int_end) = 46
        frac_end == IF dot THEN RefDigitsEnd(s, int_end + 1) ELSE int_end
        e == RefAt(s, frac_end) \in { 69, 101 }
        digits == IF e /\ RefAt(s, frac_end + 1) \in { 43, 45 }
                  THEN frac_end + 2 ELSE frac_end + 1
        exp_end == IF e THEN RefDigitsEnd(s, digits) ELSE frac_end
    IN  IF m > Len(s) THEN RefOutcome("ERROR_UNEXPECTED_END", m)
        ELSE IF int_end = m THEN RefOutcome("ERROR_INVALID_NUMBER", m)
        ELSE IF int_end > Len(s) THEN RefOutcome("ERROR_UNEXPECTED_END", int_end)
        ELSE IF dot /\ int_end + 1 > Len(s)
        THEN RefOutcome("ERROR_UNEXPECTED_END", int_end + 1)
        ELSE IF dot /\ frac_end = int_end + 1
        THEN RefOutcome("ERROR_INVALID_NUMBER", frac_end)
        ELSE IF frac_end > Len(s) THEN RefOutcome("ERROR_UNEXPECTED_END", frac_end)
        ELSE IF e /\ digits > Len(s)
        THEN RefOutcome("ERROR_UNEXPECTED_END", Len(s) + 1)
        ELSE IF e /\ exp_end = digits THEN RefOutcome("ERROR_MISSING_EXPONENT", digits)
        ELSE IF exp_end > Len(s) THEN RefOutcome("ERROR_UNEXPECTED_END", exp_end)
        ELSE RefOutcome("ERROR_NO_ERROR", exp_end)

\* control is where a number token starts, its first byte at index TokenAt
StartsNumber ==
    /\ ip = "next_element"
    /\ (RefIsDigit(RefAt(source, TokenAt)) \/ RefAt(source, TokenAt) = 45)

\* C18: a number token fails with INVALID_NUMBER when its '-' or its '.' is
\* followed by a byte that is not a digit, with MISSING_EXPONENT when its
\* 'e' or 'E' and the optional sign are followed by a byte that is not a
\* digit, and with UNEXPECTED_END when the input ends inside it or right
\* after it, each at the offset of the byte that is missing or wrong; any
\* other token is stored and p left just past it
C18_NumberErrors ==
    [][ StartsNumber =>
          LET r == RefNumberOutcome(source, TokenAt) IN
          IF r.code = "ERROR_NO_ERROR"
          THEN /\ ip' = "push_value"
               /\ p' = r.at - 1
               /\ value_tag_result' \in { TAG.integer, TAG.double_ }
          ELSE /\ ip' = "return"
               /\ ~parse_result'
               /\ error_code' = r.code
               /\ error_p' = r.at - 1 ]_vars

\* an exponent whose sign is followed by a byte that is not a digit
C18_Witness ==
    /\ Finished /\ Ran
    /\ doc.error_code = "ERROR_MISSING_EXPONENT"
    /\ source[error_p] = CH.plus
    /\ error_p < Len(source)

(***************************************************************************)
(* The document's error fields.                                            *)
(***************************************************************************)
\* the document is the one document() constructs: no parse has filled it
DefaultConstructed == doc = DocumentDefault

\* C19: error_line is 0, and error_column is 0, exactly when the document
\* is valid or default-constructed; a valid document has the code NO_ERROR
\* and the empty message; a default-constructed one is invalid with the
\* code UNINITIALIZED, which no document that a parse returned has
C19_ZeroPosition ==
    /\ (doc.error_line = 0) <=> (is_valid(doc) \/ DefaultConstructed)
    /\ (doc.error_column = 0) <=> (is_valid(doc) \/ DefaultConstructed)
    /\ is_valid(doc) =>
         /\ doc.error_code = "ERROR_NO_ERROR"
         /\ doc.formatted_error_message = << >>
    /\ DefaultConstructed =>
         /\ ~is_valid(doc)
         /\ doc.error_code = "ERROR_UNINITIALIZED"
    /\ Finished => (~DefaultConstructed /\ doc.error_code # "ERROR_UNINITIALIZED")
    /\ ~Finished => DefaultConstructed

\* a valid document returned by a parse
C19_Witness ==
    /\ Finished /\ is_valid(doc)
    /\ doc.error_line = 0 /\ doc.error_column = 0
    /\ doc.error_code = "ERROR_NO_ERROR"
    /\ Len(doc.formatted_error_message) = 0

(***************************************************************************)
(* Frames of the scratch stack.                                            *)
(***************************************************************************)
\* the parser is about to open an array or an object inside the current one
Descends == ip = "next_element" /\ RefAt(source, TokenAt) \in { 91, 123 }

\* the frame being popped is not the root's
NestedCloses == ip = "pop" /\ get_element_value(pop_element) # ROOT_MARKER

\* the element word of a closed array or object is about to be pushed
PushesClosed == ip = "push_value" /\ value_tag_result \in { TAG.array, TAG.object }

\* C20: a frame is opened by a sentinel word that holds the enclosing
\* frame's tag and base; no step changes a scratch word below the current
\* frame's base; the close of an array or an object hands that sentinel to
\* pop; pop, for a nested frame, sets current_base and
\* current_structure_tag from it, value_tag_result to the child's tag and
\* the scratch top to the child's base, and writes nothing; the push that
\* follows adds one word at the child's base, the child's tag with the
\* write offset of its record, and goes to structure_close_or_comma
C20_NestedClose ==
    /\ [][ Descends =>
             /\ current_base' = stack_top
             /\ stack_top' = stack_top + 1
             /\ arena'[stack_top] = make_element(current_structure_tag, current_base)
             /\ current_structure_tag'
                    = (IF source[TokenAt] = 91 THEN TAG.array ELSE TAG.object) ]_vars
    /\ [][ Ran => \A i \in 0 .. current_base - 1 : arena'[i] = arena[i] ]_vars
    /\ [][ (ip \in { "pop_array", "pop_object" }) =>
             /\ pop_element' = arena[current_base]
             /\ ip' = "pop"
             /\ UNCHANGED << stack_top, current_base, current_structure_tag >> ]_vars
    /\ [][ NestedCloses =>
             /\ current_base' = get_element_value(pop_element)
             /\ current_structure_tag' = get_element_tag(pop_element)
             /\ value_tag_result' = current_structure_tag
             /\ stack_top' = current_base
             /\ ip' = "push_value"
             /\ UNCHANGED << arena, write_cursor, input, p >> ]_vars
    /\ [][ PushesClosed =>
             /\ stack_top' = stack_top + 1
             /\ arena'[stack_top]
                    = make_element(value_tag_result, structure_end - write_cursor)
             /\ \A i \in DOMAIN arena \ { stack_top } : arena'[i] = arena[i]
             /\ ip' = "structure_close_or_comma"
             /\ UNCHANGED << current_base, current_structure_tag, write_cursor, p >> ]_vars

\* an array or an object closed inside a nested frame that held an element
\* already: its element word is the frame's second
C20_Witness ==
    /\ Ran /\ ip = "structure_close_or_comma"
    /\ current_base > 0
    /\ stack_top = current_base + 3
    /\ get_element_tag(arena[stack_top - 1]) \in { TAG.array, TAG.object }
    /\ get_element_value(arena[stack_top - 1]) = structure_end - write_cursor
    /\ get_element_tag(arena[current_base]) = TAG.array
    /\ current_structure_tag = TAG.array

(***************************************************************************)
(* The copy of a closing frame into its record.                            *)
(***************************************************************************)
\* a frame is about to be installed: its words are [current_base + 1,
\* stack_top), its record will start at InstallBase
Installs == ip \in { "pop_array", "pop_object" }

FrameLength == stack_top - (current_base + 1)

InstallBase == allocator_reserve(write_cursor, FrameLength + 1)

\* the frame as the copy finds it: sorted first when install_object sorts
FrameAsCopied(ties) ==
    IF ip = "pop_object" /\ should_binary_search(FrameMembers)
    THEN std_sort(arena, input, current_base + 1, FrameMembers, ties)
    ELSE arena

\* the element word of the record for the frame's element word w
Relocated(w) ==
    make_element(get_element_tag(w),
                 (structure_end - get_element_value(w)) - InstallBase)

\* C21: in install_array and install_object the k-th word from the frame's
\* end is read at array_end - k and its copy written at out - k, which is
\* never the lower index, the length word being written last and not below
\* the sentinel; and the record installed holds the length and, word for
\* word, the frame as it was before the copy, element words relocated and
\* key bounds as they were, whether or not the record lies over the frame
C21_ReadBeforeOverwrite ==
    /\ [](( Ran /\ Installs ) =>
            LET out == InstallBase + FrameLength + 1 IN
            /\ \A k \in 1 .. FrameLength : out - k >= stack_top - k
            /\ InstallBase >= current_base)
    /\ [][ (Ran /\ Installs) =>
             /\ write_cursor' = InstallBase
             /\ pop_element' = arena[current_base]
             /\ arena'[InstallBase]
                    = (IF ip = "pop_array" THEN FrameLength ELSE FrameMembers)
             /\ \E ties \in { "kept", "reversed" } :
                  LET frame == FrameAsCopied(ties) IN
                  \A k \in 1 .. FrameLength :
                      arena'[InstallBase + k]
                          = (IF ip = "pop_array" \/ k % 3 = 0
                             THEN Relocated(frame[current_base + k])
                             ELSE frame[current_base + k]) ]_vars

\* a record of two elements or more was installed over its frame, and one
\* word further up than the word it was read from
C21_Witness ==
    /\ Ran /\ ip = "pop"
    /\ stack_top >= current_base + 3
    /\ write_cursor = current_base + 1

\* C22: in a parse that succeeds no scratch push and no key reservation has
\* stored into an arena word at or above the AST top, where payloads and
\* records lie (the scratch top after each scratch store is at most the AST
\* top), and the arrays below the root returned hold the values of the text
C22_ScratchBelowAst ==
    /\ (Ran /\ ip \in { "return", "done" } /\ parse_result) =>
            "scratch store into the AST" \notin faults
    /\ (Ran /\ Finished /\ is_valid(doc)) =>
            /\ "scratch store into the AST" \notin faults
            /\ ArraysAgree(arena, input, Root, SourceValue)

\* a successful parse whose root array holds a structure: the element word
\* of the inner record was pushed just below that record, and the arena
\* is full
C22_Witness ==
    /\ Ran /\ Finished /\ is_valid(doc)
    /\ doc.root_tag = TAG.array
    /\ write_cursor = 0
    /\ Len(source) > 0
    /\ get_element_tag(arena[1]) \in { TAG.array, TAG.object }
    /\ get_element_value(arena[1]) = 2

(***************************************************************************)
(* Where the element words of the installed records point.                 *)
(***************************************************************************)
LiteralTags == { TAG.null, TAG.true_, TAG.false_ }

\* the words of the record of v itself: the length word, the element words
\* and the key bounds
OwnWords(a, v) ==
    IF v.value_tag = TAG.array THEN v.payload .. (v.payload + get_length(a, v))
    ELSE v.payload .. (v.payload + 3 * get_length(a, v))

\* the values that the element words of the record of v name
ElementsOf(a, v) ==
    IF v.value_tag = TAG.array
    THEN { get_array_element(a, v, i) : i \in 0 .. get_length(a, v) - 1 }
    ELSE { get_object_value(a, v, i) : i \in 0 .. get_length(a, v) - 1 }

\* the extent of v: its payload words and those of everything below it
RECURSIVE Extent(_, _)
Extent(a, v) ==
    CASE v.value_tag \in LiteralTags -> {}
      [] v.value_tag = TAG.integer ->
            v.payload .. (v.payload + integer_word_length - 1)
      [] v.value_tag = TAG.double_ ->
            v.payload .. (v.payload + double_word_length - 1)
      [] v.value_tag = TAG.string -> { v.payload, v.payload + 1 }
      [] OTHER ->
            OwnWords(a, v) \cup UNION { Extent(a, e) : e \in ElementsOf(a, v) }

\* the arrays and objects at and below v
RECURSIVE RecordsBelow(_, _)
RecordsBelow(a, v) ==
    IF v.value_tag \notin { TAG.array, TAG.object } THEN {}
    ELSE { v } \cup UNION { RecordsBelow(a, e) : e \in ElementsOf(a, v) }

\* C23, as stated: in a valid document every element word of every record,
\* those tagged null, true and false included, names a word of the extent
\* of its record, inside the arena
C23_ElementsInsideExtent ==
    (Finished /\ is_valid(doc)) =>
        \A r \in RecordsBelow(arena, Root) : \A e \in ElementsOf(arena, r) :
            /\ e.payload \in Extent(arena, r)
            /\ e.payload \in 0 .. structure_end - 1

\* C23, amended: in a valid document every element word tagged integer,
\* double, string, array or object names the first word of its payload,
\* which lies in the extent of its record past the record's own words and
\* inside the arena; an element word tagged null, true or false names the
\* AST top of the moment it was pushed, at or past the end of the record's
\* own words and at most one past the last word of the arena
C23_PayloadsInsideExtent ==
    (Finished /\ is_valid(doc)) =>
        \A r \in RecordsBelow(arena, Root) : \A e \in ElementsOf(arena, r) :
            IF e.value_tag \in LiteralTags
            THEN /\ \A w \in OwnWords(arena, r) : w < e.payload
                 /\ e.payload <= structure_end
            ELSE /\ e.payload \in Extent(arena, r) \ OwnWords(arena, r)
                 /\ Extent(arena, e) \subseteq Extent(arena, r)
                 /\ e.payload \in 0 .. structure_end - 1

\* a valid document with an element tagged null, true or false that names
\* a word of the arena outside the extent of its record: the payload of a
\* value that stands before the record in the enclosing array
C23_Witness ==
    /\ Finished /\ is_valid(doc)
    /\ \E r \in RecordsBelow(arena, Root) : \E e \in ElementsOf(arena, r) :
         /\ e.value_tag \in LiteralTags
         /\ e.payload \notin Extent(arena, r)
         /\ e.payload < structure_end

(***************************************************************************)
(* After a value inside a structure.                                       *)
(***************************************************************************)
\* the opening bracket of the innermost structure of s still open after its
\* first k bytes, 0 when there is none: the last opening bracket with as
\* many opening as closing brackets after it (the strings of the inputs hold
\* no bracket)
RefEnclosing(s, k) ==
    LET opening == { j \in 1 .. k : s[j] \in { CH.lbracket, CH.lbrace } }
        closing == { j \in 1 .. k : s[j] \in { CH.rbracket, CH.rbrace } }
        open == { j \in opening :
                    Cardinality({ o \in opening : o > j })
                        = Cardinality({ c \in closing : c > j }) }
    IN  IF open = {} THEN 0
        ELSE s[CHOOSE j \in open : \A i \in open : i <= j]

AfterValue == Ran /\ ip = "structure_close_or_comma"

\* the parse fails with code at the byte offset k
FailsAt(code, k) ==
    /\ ip' = "return"
    /\ ~parse_result'
    /\ error_code' = code
    /\ error_p' = k

\* C24: after a value inside a structure, with whitespace skipped, a comma
\* goes on to the next element of an array or the next key of an object,
\* ']' goes to pop_array only inside an array and '}' to pop_object only
\* inside an object, any other byte (the other closing bracket included)
\* fails with EXPECTED_COMMA at that byte, and the end of the input fails
\* with UNEXPECTED_END; the step stores nothing in the arena
C24_CloseOrComma ==
    [][ AfterValue =>
          LET k == TokenAt
              open == RefEnclosing(source, p)
          IN  /\ open \in { CH.lbracket, CH.lbrace }
              /\ current_structure_tag
                     = (IF open = CH.lbracket THEN TAG.array ELSE TAG.object)
              /\ UNCHANGED << arena, stack_top, write_cursor, current_base,
                              current_structure_tag, input >>
              /\ CASE k > Len(source) ->
                        FailsAt("ERROR_UNEXPECTED_END", Len(source))
                   [] k <= Len(source) /\ source[k] = CH.comma ->
                        /\ p' = k
                        /\ ip' = (IF open = CH.lbracket THEN "next_element"
                                  ELSE "object_key")
                   [] k <= Len(source) /\ source[k] = CH.rbracket
                                       /\ open = CH.lbracket ->
                        p' = k - 1 /\ ip' = "pop_array"
                   [] k <= Len(source) /\ source[k] = CH.rbrace
                                       /\ open = CH.lbrace ->
                        p' = k - 1 /\ ip' = "pop_object"
                   [] OTHER -> FailsAt("ERROR_EXPECTED_COMMA", k - 1) ]_vars

\* a '}' after a value of an array: EXPECTED_COMMA at the '}'
C24_Witness ==
    /\ Ran /\ ip = "return" /\ ~parse_result
    /\ error_code = "ERROR_EXPECTED_COMMA"
    /\ source[error_p + 1] = CH.rbrace
    /\ RefEnclosing(source, error_p) = CH.lbracket

(***************************************************************************)
(* Where a value is expected.                                              *)
(***************************************************************************)
ExpectsValue == Ran /\ ip = "next_element"

\* the bytes a value can start with
RefValueStart ==
    { CH.n, CH.t, CH.f, CH.minus, CH.quote, CH.lbracket, CH.lbrace }
        \cup (CH.zero .. CH.nine)

\* the error of the step is reported at the line and column that the byte
\* offset k has in the input as it was supplied
ReportedAt(k) ==
    LineBreaksKept =>
        /\ error_line' = RefLine(source, k)
        /\ error_column' = RefColumn(source, k)

\* C25: where a value is expected, with whitespace skipped, the end of the
\* input fails with UNEXPECTED_END, a ',' fails with UNEXPECTED_COMMA, a
\* NUL byte with UNEXPECTED_END, and any other byte that cannot start a
\* value (a ']' or '}' after a comma included) with EXPECTED_VALUE, each at
\* the line and column of that byte; a byte that can start a value gives
\* none of UNEXPECTED_COMMA and EXPECTED_VALUE
C25_ValueExpected ==
    [][ ExpectsValue =>
          LET k == TokenAt IN
          CASE k > Len(source) -> FailsAt("ERROR_UNEXPECTED_END", Len(source))
            [] k <= Len(source) /\ source[k] = CH.comma ->
                  FailsAt("ERROR_UNEXPECTED_COMMA", k - 1) /\ ReportedAt(k - 1)
            [] k <= Len(source) /\ source[k] = 0 ->
                  FailsAt("ERROR_UNEXPECTED_END", k - 1) /\ ReportedAt(k - 1)
            [] k <= Len(source) /\ source[k] \notin RefValueStart \cup { 0, CH.comma } ->
                  FailsAt("ERROR_EXPECTED_VALUE", k - 1) /\ ReportedAt(k - 1)
            [] OTHER ->
                  error_code' \notin { "ERROR_UNEXPECTED_COMMA", "ERROR_EXPECTED_VALUE" }
      ]_vars

\* the text [1,] failed with EXPECTED_VALUE at line 1, column 4
C25_Witness ==
    /\ Ran /\ ip = "return" /\ ~parse_result
    /\ source = << CH.lbracket, CH.zero + 1, CH.comma, CH.rbracket >>
    /\ error_code = "ERROR_EXPECTED_VALUE"
    /\ error_line = 1 /\ error_column = 4

(***************************************************************************)
(* The members of an object.                                               *)
(***************************************************************************)
ExpectsKey == Ran /\ ip = "object_key"

OpensObject == Ran /\ ip = "object_close_or_element"

\* the scratch words of the current frame, the sentinel not counted
FrameWords == stack_top - (current_base + 1)

\* C26: after '{', with whitespace skipped, '}' closes the object and any
\* other byte is read as a key; where a key is expected (after '{' not
\* closed at once, and after every ',' of an object) a byte other than '"'
\* fails with MISSING_OBJECT_KEY at that byte; after a key that is a closed
\* string literal, with whitespace skipped, a byte other than ':' and the
\* end of the input fail with EXPECTED_COLON, and a ':' leaves the two key
\* bounds on the scratch stack and goes on to the value; the frame of an
\* object holds three words a member, two key bounds and then the element
C26_ObjectMembers ==
    /\ [][ OpensObject =>
             LET k == RefWs(source, p + 2) IN
             CASE k > Len(source) -> FailsAt("ERROR_UNEXPECTED_END", Len(source))
               [] k <= Len(source) /\ source[k] = CH.rbrace ->
                     p' = k - 1 /\ ip' = "pop_object"
               [] OTHER -> p' = k - 1 /\ ip' = "object_key" ]_vars
    /\ [][ ExpectsKey =>
             LET k == TokenAt IN
             CASE k > Len(source) -> FailsAt("ERROR_UNEXPECTED_END", Len(source))
               [] k <= Len(source) /\ source[k] # CH.quote ->
                     /\ FailsAt("ERROR_MISSING_OBJECT_KEY", k - 1)
                     /\ ReportedAt(k - 1)
                     /\ UNCHANGED << arena, stack_top >>
               [] k <= Len(source) /\ source[k] = CH.quote
                                   /\ RefLiteral(source, k + 1).kind = "closed" ->
                     LET e == RefLiteral(source, k + 1).at
                         c == RefWs(source, e + 1)
                     IN  /\ stack_top' = stack_top + 2
                         /\ arena'[stack_top] = k
                         /\ arena'[stack_top + 1] \in k .. e - 1
                         /\ (\A j \in k + 1 .. e - 1 : source[j] # CH.backslash)
                                => arena'[stack_top + 1] = e - 1
                         /\ input'[arena'[stack_top + 1] + 1] = 0
                         /\ IF c <= Len(source) /\ source[c] = CH.colon
                            THEN p' = c /\ ip' = "next_element"
                            ELSE FailsAt("ERROR_EXPECTED_COLON",
                                         IF c > Len(source) THEN Len(source)
                                         ELSE c - 1)
               [] OTHER ->
                     error_code' \notin { "ERROR_MISSING_OBJECT_KEY" } ]_vars
    /\ [](( Ran /\ current_structure_tag = TAG.object ) =>
            /\ ip \in { "object_key", "structure_close_or_comma", "pop_object" }
                   => FrameWords % 3 = 0
            /\ ip \in { "next_element" } => FrameWords % 3 = 2)

\* an object with one member in its frame and a '}' where its second key
\* is expected
C26_Witness ==
    /\ Ran /\ ip = "return" /\ ~parse_result
    /\ error_code = "ERROR_MISSING_OBJECT_KEY"
    /\ source[error_p + 1] = CH.rbrace
    /\ current_structure_tag = TAG.object
    /\ FrameWords = 3

(***************************************************************************)
(* null, true and false.                                                   *)
(***************************************************************************)
\* control is where an element starts with 'n', 't' or 'f'
StartsWord == ExpectsValue /\ RefAt(source, TokenAt) \in { CH.n, CH.t, CH.f }

\* the literal that starts with the byte c, its tag and its error
RefWord(c) ==
    CASE c = CH.n -> [ bytes |-> << CH.n, CH.u, CH.l, CH.l >>, tag |-> TAG.null,
                       code |-> "ERROR_EXPECTED_NULL" ]
      [] c = CH.t -> [ bytes |-> << CH.t, CH.r, CH.u, CH.e >>, tag |-> TAG.true_,
                       code |-> "ERROR_EXPECTED_TRUE" ]
      [] c = CH.f -> [ bytes |-> << CH.f, CH.a, CH.l, CH.s, CH.e >>,
                       tag |-> TAG.false_, code |-> "ERROR_EXPECTED_FALSE" ]

\* the bytes of source from the index k on spell w
Spells(k, w) ==
    /\ k + Len(w) - 1 <= Len(source)
    /\ SubSeq(source, k, k + Len(w) - 1) = w

\* the literal is accepted: its bytes consumed, its tag the element's
WordAccepted(k, w) ==
    /\ ip' = "push_value"
    /\ p' = k - 1 + Len(w.bytes)
    /\ value_tag_result' = w.tag
    /\ UNCHANGED << arena, stack_top, write_cursor, input >>

\* C27, as stated: an element that starts with 'n', 't' or 'f' is accepted
\* when the bytes spell null, true or false, and fails with EXPECTED_NULL,
\* EXPECTED_TRUE or EXPECTED_FALSE at its first byte whenever they do not
C27_LiteralOrExpected ==
    [][ StartsWord =>
          LET k == TokenAt
              w == RefWord(source[k])
          IN  IF Spells(k, w.bytes) THEN WordAccepted(k, w)
              ELSE FailsAt(w.code, k - 1) ]_vars

\* C27, amended: an element that starts with 'n', 't' or 'f' fails with
\* UNEXPECTED_END at its first byte when fewer than 4, 4 or 5 bytes are left
\* of the input from that byte on, whatever they are; otherwise it is
\* accepted, 4, 4 or 5 bytes consumed, when the bytes spell null, true or
\* false, and fails with EXPECTED_NULL, EXPECTED_TRUE or EXPECTED_FALSE at
\* the line and column of its first byte when they do not
C27_LiteralOrExpectedOrEnd ==
    [][ StartsWord =>
          LET k == TokenAt
              w == RefWord(source[k])
          IN  IF Len(source) - (k - 1) < Len(w.bytes)
              THEN FailsAt("ERROR_UNEXPECTED_END", k - 1) /\ ReportedAt(k - 1)
              ELSE IF Spells(k, w.bytes) THEN WordAccepted(k, w)
              ELSE FailsAt(w.code, k - 1) /\ ReportedAt(k - 1) ]_vars

\* an element that starts with 'n', 't' or 'f' with a ']' less than 4, 4 or
\* 5 bytes after it, the last byte of the input: UNEXPECTED_END
C27_Witness ==
    /\ Ran /\ ip = "return" /\ ~parse_result
    /\ error_code = "ERROR_UNEXPECTED_END"
    /\ error_p < Len(source)
    /\ source[error_p + 1] \in { CH.n, CH.t, CH.f }
    /\ source[Len(source)] = CH.rbracket

(***************************************************************************)
(* Surrogates in \u escapes.                                               *)
(***************************************************************************)
RefHexValue(c) ==
    IF c >= 48 /\ c <= 57 THEN c - 48
    ELSE IF c >= 97 /\ c <= 102 THEN c - 87
    ELSE c - 55

\* the indices among i .. i + 3 of the bytes of s that are no hex digits
RefNotHex(s, i) == { k \in i .. i + 3 : ~RefIsHex(RefAt(s, k)) }

\* the code unit that the four hex digits of s at the index i spell
RefCodeUnit(s, i) ==
    4096 * RefHexValue(s[i]) + 256 * RefHexValue(s[i + 1])
        + 16 * RefHexValue(s[i + 2]) + RefHexValue(s[i + 3])

\* the bytes of s at the index i are a \u escape of a code unit in lo .. hi
RefEscapeIn(s, i, lo, hi) ==
    /\ i + 5 <= Len(s)
    /\ s[i] = 92 /\ s[i + 1] = 117
    /\ RefNotHex(s, i + 2) = {}
    /\ RefCodeUnit(s, i + 2) \in lo .. hi

\* control is where a string literal starts whose first character that is
\* not plain, a simple escape, a \u escape outside D000..DFFF or a two-byte
\* character is the \u escape of a high surrogate; HighAt is its index
HighAt == RefLiteral(source, TokenAt + 1).at

StartsWithHigh ==
    /\ Ran /\ StartsLiteral
    /\ RefLiteral(source, TokenAt + 1).kind = "other"
    /\ RefEscapeIn(source, HighAt, 55296, 56319)

\* C28, as stated: the \u escape of a high surrogate that is not followed
\* at once by the \u escape of a low surrogate makes the parse fail with
\* INVALID_UTF16_TRAIL_SURROGATE
C28_LoneHighSurrogate ==
    [][ (StartsWithHigh /\ ~RefEscapeIn(source, HighAt + 6, 56320, 57343)) =>
          /\ ip' = "return"
          /\ ~parse_result'
          /\ error_code' = "ERROR_INVALID_UTF16_TRAIL_SURROGATE" ]_vars

\* C28, amended: the \u escape of a high surrogate that is not followed at
\* once by the \u escape of a low surrogate makes the parse fail: with
\* UNEXPECTED_END_OF_UTF16 at the byte after the escape when fewer than 6
\* bytes of the input are left there (the closing quote and what follows
\* the literal counted), else with EXPECTED_U at that byte when the next
\* two bytes are not \u, else with INVALID_UNICODE_ESCAPE past the first of
\* the four bytes after \u that is no hex digit, else with
\* INVALID_UTF16_TRAIL_SURROGATE past the second escape; followed by the
\* escape of a low surrogate it fails with none of these codes there
C28_HighSurrogateErrors ==
    [][ StartsWithHigh =>
          LET j == HighAt + 6 IN
          IF Len(source) - (j - 1) < 6
          THEN FailsAt("ERROR_UNEXPECTED_END_OF_UTF16", j - 1)
          ELSE IF source[j] # 92 \/ source[j + 1] # 117
          THEN FailsAt("ERROR_EXPECTED_U", j - 1)
          ELSE IF RefNotHex(source, j + 2) # {}
          THEN FailsAt("ERROR_INVALID_UNICODE_ESCAPE",
                       CHOOSE k \in RefNotHex(source, j + 2) :
                           \A i \in RefNotHex(source, j + 2) : k <= i)
          ELSE IF RefCodeUnit(source, j + 2) \notin 56320 .. 57343
          THEN FailsAt("ERROR_INVALID_UTF16_TRAIL_SURROGATE", j + 5)
          ELSE ~(/\ ip' = "return"
                 /\ error_code' \in { "ERROR_UNEXPECTED_END_OF_UTF16",
                                      "ERROR_EXPECTED_U",
                                      "ERROR_INVALID_UTF16_TRAIL_SURROGATE" }
                 /\ error_p' \in j - 1 .. j + 5) ]_vars

\* the escape of a high surrogate with the closing quote right after it:
\* the parse failed with UNEXPECTED_END_OF_UTF16 at the quote
C28_Witness ==
    /\ Ran /\ ip = "return" /\ ~parse_result
    /\ error_code = "ERROR_UNEXPECTED_END_OF_UTF16"
    /\ error_p >= 6 /\ error_p < Len(source)
    /\ RefEscapeIn(source, error_p - 5, 55296, 56319)
    /\ source[error_p + 1] = CH.quote

(***************************************************************************)
(* Bytes with the high bit set in a string literal.                        *)
(***************************************************************************)
\* the number of bytes of the character that the lead byte c starts, 0 for
\* a byte that starts none (10xxxxxx and 11111xxx)
RefSequenceLength(c) ==
    IF c >= 192 /\ c < 224 THEN 2
    ELSE IF c >= 224 /\ c < 240 THEN 3
    ELSE IF c >= 240 /\ c < 248 THEN 4
    ELSE 0

\* the indices of the bytes after the lead at i that are no continuation
\* bytes, the bytes past the end of the input not counted
RefBadContinuation(s, i) ==
    { k \in i + 1 .. i + RefSequenceLength(s[i]) - 1 :
        k <= Len(s) /\ s[k] \notin 128 .. 191 }

\* control is where a string literal starts whose first character that is
\* not plain, an escape or a two-byte character is a byte with the high bit
\* set; HighBitAt is its index
HighBitAt == RefLiteral(source, TokenAt + 1).at

StartsWithHighBit ==
    /\ Ran /\ StartsLiteral
    /\ RefLiteral(source, TokenAt + 1).kind = "other"
    /\ HighBitAt <= Len(source)
    /\ source[HighBitAt] >= 128

\* C29: in a string literal a byte 10xxxxxx or 11111xxx where a character
\* starts, and a byte that is no continuation byte after a lead byte
\* 110xxxxx, 1110xxxx or 11110xxx, make the parse fail with INVALID_UTF8;
\* a string of a valid document holds, of bytes with the high bit set, only
\* well-formed sequences, copied as they were
C29_Utf8Validated ==
    /\ [][ StartsWithHighBit =>
             LET i == HighBitAt IN
             (RefSequenceLength(source[i]) = 0 \/ RefBadContinuation(source, i) # {})
                 => /\ ip' = "return"
                    /\ ~parse_result'
                    /\ error_code' = "ERROR_INVALID_UTF8" ]_vars
    /\ [](( Ran /\ Finished /\ is_valid(doc) ) =>
            \A i \in 1 .. Len(source) :
                source[i] \in 128 .. 191 =>
                    \E k \in 1 .. 3 :
                        /\ i - k >= 1
                        /\ RefSequenceLength(source[i - k]) > k
                        /\ \A j \in i - k + 1 .. i : source[j] \in 128 .. 191)

\* the text ["\x80\x80"] parsed into a valid document
C29_Witness ==
    /\ Ran /\ Finished /\ is_valid(doc)
    /\ source = << CH.lbracket, CH.quote, 128, 128, CH.quote, CH.rbracket >>
    /\ as_string(arena, input, get_array_element(arena, Root, 0)) = << 128, 128 >>

(***************************************************************************)
(* The two cursors of parse_string_slow.                                   *)
(***************************************************************************)
\* the bytes of the buffer from the index k on are those of the input as it
\* was supplied
UnreadFrom(buffer, k) == \A j \in k .. Len(source) : buffer[j] = source[j]

\* C30: at the head of every iteration of the loop of parse_string_slow the
\* write cursor end is at or below the read cursor p, whatever escapes,
\* \u escapes, surrogate pairs and characters of several bytes the literal
\* holds; so the end of the decoded string is below the read cursor, and at
\* every step of the parse the bytes from the read cursor on, and after a
\* failed literal the bytes from the error on, are those of the input
C30_WriteBehindRead ==
    /\ [](Ran => "string write ahead of read" \notin faults)
    /\ [](( Ran /\ StartsLiteral ) =>
            LET r == parse_string(input, TokenAt - 1) IN
            /\ ~r.crossed
            /\ r.p # NULL => r.tag0 <= r.tag1 /\ r.tag1 < r.p)
    /\ [](( Ran /\ p >= 0 /\ ip \notin { "parse", "return", "done" } ) =>
            UnreadFrom(input, p + 1))
    /\ [][ (Ran /\ StartsLiteral /\ ip' = "return" /\ ~parse_result') =>
             UnreadFrom(input', error_p' + 1) ]_vars

\* a string value decoded in place: the first of the four bytes of a
\* surrogate pair stands where the backslash of an escape stood, and the
\* decoded string is at least 8 bytes shorter than its literal
C30_Witness ==
    /\ Ran /\ ip = "push_value" /\ value_tag_result = TAG.string
    /\ \E j \in 1 .. Len(source) :
         /\ input[j] = 240 /\ source[j] = CH.backslash
         /\ arena[write_cursor + 1] >= j
    /\ arena[write_cursor + 1] - arena[write_cursor] + 8 <= p - 1 - arena[write_cursor]

(***************************************************************************)
(* The decoded bytes of a string.                                          *)
(***************************************************************************)
\* the byte that the simple escape with the second byte c stands for
RefEscapeByte(c) ==
    CASE c = 34 -> 34
      [] c = 92 -> 92
      [] c = 47 -> 47
      [] c = 98 -> 8
      [] c = 102 -> 12
      [] c = 110 -> 10
      [] c = 114 -> 13
      [] c = 116 -> 9

\* the number of bytes of the UTF-8 encoding of the code point cp
RefUtf8Length(cp) ==
    IF cp < 128 THEN 1 ELSE IF cp < 2048 THEN 2 ELSE IF cp < 65536 THEN 3 ELSE 4

\* the code point that the n bytes of d from the index j on encode in UTF-8
\* (RFC 3629, by the bit patterns of the lead and of the continuation
\* bytes), -1 when they are no encoding of n bytes
RefUtf8Value(d, j, n) ==
    LET cont(k) == d[k] - 128
        conts == \A k \in j + 1 .. j + n - 1 : d[k] \in 128 .. 191
    IN  CASE n = 1 /\ d[j] < 128 -> d[j]
          [] n = 2 /\ d[j] \in 192 .. 223 /\ conts ->
                (d[j] - 192) * 64 + cont(j + 1)
          [] n = 3 /\ d[j] \in 224 .. 239 /\ conts ->
                (d[j] - 224) * 4096 + cont(j + 1) * 64 + cont(j + 2)
          [] n = 4 /\ d[j] \in 240 .. 247 /\ conts ->
                (d[j] - 240) * 262144 + cont(j + 1) * 4096 + cont(j + 2) * 64
                    + cont(j + 3)
          [] OTHER -> 0 - 1

\* the bytes of d from the index j up to the index en are the decoding of
\* the string literal of s whose first byte after the opening quote is at
\* the index i: a simple escape gives its byte, a \u escape the UTF-8
\* encoding of its code unit, the escapes of a high and of a low surrogate
\* together the four bytes of their code point, any other byte itself
RECURSIVE RefDecodes(_, _, _, _, _)
RefDecodes(s, i, d, j, en) ==
    LET c == RefAt(s, i) IN
    IF i > Len(s) THEN FALSE
    ELSE IF c = 34 THEN j = en + 1
    ELSE IF c # 92 THEN j <= en /\ d[j] = c /\ RefDecodes(s, i + 1, d, j + 1, en)
    ELSE IF RefIsEscape(RefAt(s, i + 1))
    THEN /\ j <= en
         /\ d[j] = RefEscapeByte(s[i + 1])
         /\ RefDecodes(s, i + 2, d, j + 1, en)
    ELSE IF RefEscapeIn(s, i, 55296, 56319)
    THEN /\ RefEscapeIn(s, i + 6, 56320, 57343)
         /\ LET cp == 65536 + (RefCodeUnit(s, i + 2) - 55296) * 1024
                            + (RefCodeUnit(s, i + 8) - 56320)
            IN  /\ cp <= 1114111
                /\ j + 3 <= en
                /\ RefUtf8Value(d, j, 4) = cp
                /\ RefDecodes(s, i + 12, d, j + 4, en)
    ELSE /\ RefEscapeIn(s, i, 0, 65535)
         /\ LET cp == RefCodeUnit(s, i + 2)
                n == RefUtf8Length(cp)
            IN  /\ n <= 3
                /\ j + n - 1 <= en
                /\ RefUtf8Value(d, j, n) = cp
                /\ RefDecodes(s, i + 6, d, j + n, en)

\* the view whose begin word is a[k] holds the decoding of the literal that
\* starts at its begin in the source
ViewDecoded(a, k) == RefDecodes(source, a[k] + 1, input, a[k] + 1, a[k + 1])

\* a string value has just been parsed: its two words are at the AST top
StringParsed == Ran /\ ip = "push_value" /\ value_tag_result = TAG.string

\* C31: the bytes of a string value just parsed, and of every string value
\* and object key of a valid document, from its begin word up to its end
\* word are the decoding of its source literal: simple escapes as their
\* byte, \uXXXX in upper- or lower-case hex as the UTF-8 encoding of the
\* code unit in 1, 2 or 3 bytes, a high and a low surrogate as the 4 bytes
\* of 0x10000 + ((U - 0xD800) << 10 | (V - 0xDC00)), at most 0x10FFFF; so
\* the length recorded, end - begin, is the number of decoded bytes
C31_DecodedAsReference ==
    /\ StringParsed => ViewDecoded(arena, write_cursor)
    /\ (Finished /\ is_valid(doc)) =>
            \A k \in BeginWords(arena, Root) : ViewDecoded(arena, k)

\* a valid document whose string is a surrogate pair after a three-byte
\* escape: seven decoded bytes for a literal of eighteen
C31_Witness ==
    /\ Finished /\ is_valid(doc) /\ doc.root_tag = TAG.array
    /\ RefEscapeIn(source, 3, 8364, 8364)
    /\ RefEscapeIn(source, 9, 55296, 56319)
    /\ LET v == get_array_element(arena, Root, 0) IN
       /\ v.value_tag = TAG.string
       /\ as_string(arena, input, v) = << 226, 130, 172, 240, 159, 152, 128 >>

(***************************************************************************)
(* The escape of a low surrogate with no high surrogate before it.         *)
(***************************************************************************)
\* the bytes that decoding saves over the well-formed characters of s from
\* the index i up to the index to, exclusive: one for a simple escape, and
\* for a \u escape six less the bytes of its code unit
RECURSIVE RefSaved(_, _, _)
RefSaved(s, i, to) ==
    IF i >= to THEN 0
    ELSE IF s[i] # 92 THEN RefSaved(s, i + 1, to)
    ELSE IF RefIsEscape(s[i + 1]) THEN 1 + RefSaved(s, i + 2, to)
    ELSE 6 - RefUtf8Length(RefCodeUnit(s, i + 2)) + RefSaved(s, i + 6, to)

\* control is where a string literal starts whose first character that is
\* not plain, a simple escape, a \u escape outside D000..DFFF or a two-byte
\* character is the \u escape of a low surrogate; LowAt is its index
LowAt == RefLiteral(source, TokenAt + 1).at

StartsWithLow ==
    /\ Ran /\ StartsLiteral
    /\ RefLiteral(source, TokenAt + 1).kind = "other"
    /\ RefEscapeIn(source, LowAt, 56320, 57343)

\* C32: the \u escape of a low surrogate that no escape of a high surrogate
\* precedes does not make the parse fail (no error at a byte of the escape),
\* and the three bytes 1110xxxx 10xxxxxx 10xxxxxx of its code unit are
\* written where the decoded string has got to
C32_LoneLowSurrogate ==
    [][ StartsWithLow =>
          LET i == LowAt
              u == RefCodeUnit(source, i + 2)
              j == i - RefSaved(source, TokenAt + 1, i)
          IN  /\ ~(ip' = "return" /\ error_p' \in i - 1 .. i + 4)
              /\ input'[j] = 224 + (u \div 4096)
              /\ input'[j + 1] = 128 + ((u \div 64) % 64)
              /\ input'[j + 2] = 128 + (u % 64) ]_vars

\* the text ["\t\udc00"] parsed into a valid document whose string is a tab
\* and the bytes ED B0 80
C32_Witness ==
    /\ Finished /\ is_valid(doc) /\ doc.root_tag = TAG.array
    /\ RefEscapeIn(source, 5, 56320, 56320)
    /\ source[3] = CH.backslash /\ source[4] = CH.t
    /\ get_length(arena, Root) = 1
    /\ as_string(arena, input, get_array_element(arena, Root, 0))
           = << 9, 237, 176, 128 >>

(***************************************************************************)
(* The bytes of the input that the parse writes.                           *)
(***************************************************************************)
\* the index of the first quote of s from the index i on that no backslash
\* escapes, one past the end of s when there is none
RECURSIVE RefClosingQuote(_, _)
RefClosingQuote(s, i) ==
    IF i > Len(s) THEN Len(s) + 1
    ELSE IF s[i] = 34 THEN i
    ELSE IF s[i] = 92 THEN RefClosingQuote(s, i + 2)
    ELSE RefClosingQuote(s, i + 1)

\* the indices of s inside string literals: after an opening quote, up to
\* and including the closing quote
RECURSIVE RefInLiterals(_, _)
RefInLiterals(s, i) ==
    LET quotes == { k \in i .. Len(s) : s[k] = 34 } IN
    IF quotes = {} THEN {}
    ELSE LET o == CHOOSE k \in quotes : \A j \in quotes : k <= j
             q == RefClosingQuote(s, o + 1)
         IN  { k \in o + 1 .. q : k <= Len(s) } \cup RefInLiterals(s, q + 1)

\* the literal that starts at TokenAt is closed and made of plain bytes:
\* no byte below 0x20, no backslash, no byte with the high bit set
RefPlainLiteral ==
    LET q == RefClosingQuote(source, TokenAt + 1) IN
    /\ q <= Len(source)
    /\ \A k \in TokenAt + 1 .. q - 1 :
         source[k] >= 32 /\ source[k] # 92 /\ source[k] < 128

\* C33: a step of the parse changes a byte of the input only when it parses
\* a string literal, and then only after the opening quote and up to the
\* closing quote; for a literal of plain bytes it changes the closing quote
\* to NUL and nothing else, and records the offsets of the byte after the
\* opening quote and of the closing quote; so at every moment the bytes
\* outside the string literals are those of the input as it was supplied
C33_OnlyLiteralsWritten ==
    /\ [][ \A k \in 1 .. Len(source) :
             input'[k] # input[k] =>
                 /\ StartsLiteral
                 /\ k \in TokenAt + 1 .. RefClosingQuote(source, TokenAt + 1) ]_vars
    /\ [][ (Ran /\ StartsLiteral /\ RefPlainLiteral) =>
             LET q == RefClosingQuote(source, TokenAt + 1)
                 k == IF ip = "object_key" THEN stack_top ELSE write_cursor - 2
             IN  /\ input' = [ input EXCEPT ![q] = 0 ]
                 /\ arena'[k] = TokenAt
                 /\ arena'[k + 1] = q - 1 ]_vars
    /\ [](Len(input) = Len(source)
          /\ \A k \in 1 .. Len(source) :
               k \notin RefInLiterals(source, 1) => input[k] = source[k])

\* a string value of four plain bytes or more has been parsed in an array
\* whose first element is a number: of the input only the closing quote has
\* changed, to NUL
C33_Witness ==
    /\ StringParsed
    /\ arena[write_cursor + 1] - arena[write_cursor] >= 4
    /\ LET q == arena[write_cursor + 1] + 1 IN
       /\ source[q] = CH.quote
       /\ input = [ source EXCEPT ![q] = 0 ]
       /\ \A k \in arena[write_cursor] + 1 .. q - 1 : source[k] = input[k]
    /\ source[1] = CH.lbracket

(***************************************************************************)
(* The double that a number token is stored as.                            *)
(***************************************************************************)
\* a number token has just been stored as a double, at the AST top
DoubleStored == Ran /\ ip = "push_value" /\ value_tag_result = TAG.double_

\* C34: the double stored for an accepted number token is never a NaN: it
\* is a zero, a finite value or an infinity, whatever the significand and
\* the exponent of the token
C34_NeverNaN ==
    DoubleStored => ~arena[write_cursor].nan

\* the text [1000...0e-400], its significand a 1 and 309 zeros, parsed into
\* a valid document whose only element is a double that is a NaN
C34_Witness ==
    /\ Finished /\ is_valid(doc) /\ doc.root_tag = TAG.array
    /\ get_length(arena, Root) = 1
    /\ Len(source) = 317
    /\ source[2] = CH.zero + 1
    /\ LET v == get_array_element(arena, Root, 0) IN
       /\ v.value_tag = TAG.double_
       /\ arena[v.payload].nan

(***************************************************************************)
(* The int accumulators of parse_number.                                   *)
(***************************************************************************)
\* the offset of the first digit of the number token about to be parsed
IntStart == IF input[TokenAt] = CH.minus THEN TokenAt ELSE TokenAt - 1

\* the offsets of the digits that the integer loop works through: none when
\* the token starts with 0 or with no digit
IntOffsets ==
    IF IntStart >= Len(input) \/ ~IsDigit(input[IntStart + 1])
           \/ input[IntStart + 1] = CH.zero
    THEN {}
    ELSE IntStart .. DigitsEnd(input, IntStart) - 1

\* i after the digit at the offset k
IntAfter(k) ==
    NumIntDigits(input, IntStart, k,
                 [ i |-> 0, d |-> DFromInt(0), try_double |-> FALSE ]).i

\* the offset of the first digit of the exponent of the token, NULL when the
\* scan does not get to one
ExpStart ==
    LET st == NumFrac(input, NumInt(input, IntStart)) IN
    IF IntStart >= Len(input) \/ st.p = NULL THEN NULL
    ELSE IF input[st.p + 1] # CH.e /\ input[st.p + 1] # CH.E THEN NULL
    ELSE IF at_eof(input, st.p + 1) THEN NULL
    ELSE LET q == IF input[st.p + 2] \in { CH.minus, CH.plus }
                  THEN st.p + 2 ELSE st.p + 1
         IN  IF at_eof(input, q) \/ ~IsDigit(input[q + 1]) THEN NULL ELSE q

ExpOffsets ==
    IF ExpStart = NULL THEN {} ELSE ExpStart .. DigitsEnd(input, ExpStart) - 1

\* exp after the digit at the offset k
ExpAfter(k) == NumExpDigits(input, ExpStart, k, 0)

\* a number token has just been stored as an integer, at the AST top
IntegerStored == Ran /\ ip = "push_value" /\ value_tag_result = TAG.integer

\* C35: while a number token is scanned the int i is in 0 .. 2147483559
\* after every digit of the integer part and the int exp in 0 .. INT_MAX
\* after every digit of the exponent, and the integer stored, negated for a
\* token with '-', is in -2147483559 .. 2147483559: no int overflows
C35_AccumulatorsInRange ==
    /\ (Ran /\ StartsNumber) =>
           /\ \A k \in IntOffsets : IntAfter(k) \in 0 .. 2147483559
           /\ \A k \in ExpOffsets : ExpAfter(k) \in 0 .. INT_MAX
    /\ IntegerStored => arena[write_cursor] \in -2147483559 .. 2147483559

\* a token about to be scanned whose exponent of eleven digits brings exp
\* to INT_MAX before its last digit
ExponentClamped ==
    /\ Ran /\ StartsNumber
    /\ \E k \in ExpOffsets : ExpAfter(k) = INT_MAX /\ k + 1 \in ExpOffsets

\* the token -2147483559 stored as the integer -2147483559, i having been
\* 2147483559 after its last digit
C35_Witness ==
    /\ IntegerStored
    /\ arena[write_cursor] = -2147483559
    /\ source[p] = CH.zero + 9

(***************************************************************************)
(* Objects of at most 100 members.                                         *)
(***************************************************************************)
\* the least index (from 0) of the members ms whose key is key, the number
\* of members when none has it
RefFirstIndex(ms, key) ==
    LET holders == { j \in 1 .. Len(ms) : ms[j].key = key } IN
    IF holders = {} THEN Len(ms)
    ELSE (CHOOSE j \in holders : \A k \in holders : j <= k) - 1

\* every object of at most 100 members at or below v holds the members of
\* the source value r at that place in their order, and a key looked up in
\* it is found at its first member with that key
RECURSIVE InSourceOrder(_, _, _, _)
InSourceOrder(a, s, v, r) ==
    CASE r.kind = "object" /\ Len(r.items) <= 100 ->
            /\ v.value_tag = TAG.object
            /\ get_length(a, v) = Len(r.items)
            /\ \A i \in 1 .. Len(r.items) :
                   /\ get_object_key(a, s, v, i - 1) = r.items[i].key
                   /\ Same(Decode(a, s, get_object_value(a, v, i - 1)),
                           r.items[i].value)
                   /\ InSourceOrder(a, s, get_object_value(a, v, i - 1),
                                    r.items[i].value)
            /\ \A key \in ProbeKeys(a, s, v) :
                   find_object_key(a, s, v, key) = RefFirstIndex(r.items, key)
      [] r.kind = "array" ->
            (v.value_tag = TAG.array /\ get_length(a, v) = Len(r.items)) =>
                \A i \in 1 .. Len(r.items) :
                    InSourceOrder(a, s, get_array_element(a, v, i - 1), r.items[i])
      [] OTHER -> TRUE

InitLive == Init \/ InitScan

\* every value ip takes: the entry, the labels of parse(), its return
Labels ==
    { "parse", "parser_parse", "array_close_or_element",
      "object_close_or_element", "structure_close_or_comma", "pop_object",
      "pop_array", "object_key", "next_element", "pop", "push_value",
      "return", "done" }

\* control moves on
Advance == ip # "done" /\ ip' \in Labels /\ ip' # ip

SpecLive == InitLive /\ [][Next]_vars /\ WF_ip(Advance)

\* the labels of the state machine; push_value is the tail that the switch
\* of next_element and the label pop share
MachineLabels ==
    { "array_close_or_element", "object_close_or_element",
      "structure_close_or_comma", "pop_object", "pop_array", "object_key",
      "next_element", "pop", "push_value" }

\* the gotos left before a byte is consumed for certain: pop goes through
\* the push to structure_close_or_comma, which may go on to pop_array or
\* pop_object without skipping anything, and next_element may open a frame
\* without skipping anything
HopsLeft(label) ==
    CASE label = "pop" -> 3
      [] label = "push_value" -> 2
      [] label \in { "structure_close_or_comma", "next_element" } -> 1
      [] OTHER -> 0

\* the bytes of the input not yet consumed, weighed against the hops
Variant(label, at) == 4 * (Len(input) - at) + HopsLeft(label)

Consumes == p' > p
PopsFrame == current_base' < current_base /\ stack_top' < stack_top
Returns == ip' = "return"

\* C37 as amended: under weak fairness every parse finishes, control being
\* always at a label and every step moving it; p stays within the input
\* and never moves back; every step of the state machine returns or lowers the variant
\* 4 * (bytes left) + (gotos left before a byte is consumed); the steps
\* that neither consume a byte, pop a frame nor return are exactly the
\* goto from structure_close_or_comma to pop_array or pop_object, the
\* descent of next_element into a new frame, and the push of the value's
\* element word, and the label each of them reaches consumes a byte
C37_TerminatesByVariant ==
    /\ <>Finished
    /\ [](ip \in Labels)
    /\ []((ip \in MachineLabels) => (0 <= p /\ p <= Len(input)))
    /\ [][ip' # ip]_vars
    /\ [][ (ip \in MachineLabels) =>
              \/ Returns
              \/ /\ p' >= p
                 /\ Variant(ip', p') < Variant(ip, p)
                 /\ \/ Consumes
                    \/ PopsFrame
                    \/ ip = "structure_close_or_comma"
                          /\ ip' \in { "pop_array", "pop_object" }
                    \/ ip = "next_element"
                          /\ ip' \in { "array_close_or_element",
                                       "object_close_or_element" }
                          /\ stack_top' = stack_top + 1
                    \/ ip = "push_value" /\ ip' = "structure_close_or_comma" ]_ip
    /\ [][ (ip \in { "array_close_or_element", "object_close_or_element",
                     "pop_array", "pop_object", "object_key" }) =>
              (Returns \/ Consumes) ]_ip

\* C37 as stated: every transition of the state machine (the push of the
\* element word counted with the transition it ends) consumes at least one
\* input byte, pops one open frame, or returns
C37_EveryTransitionConsumes ==
    [][ (ip \in MachineLabels \ { "push_value" }) =>
          (Consumes \/ PopsFrame \/ Returns) ]_ip

\* structure_close_or_comma has sent a nested, non-empty array to pop_array
\* without consuming a byte: the byte before the bracket ends a value
C37_Witness ==
    /\ ip = "pop_array"
    /\ current_base > 0
    /\ stack_top > current_base + 1
    /\ input[p + 1] = CH.rbracket
    /\ IsDigit(input[p])

\* the highest offset of the input that the step of parse() at the label
\* ip touches, the scans it calls included
StepReach ==
    CASE ip = "parser_parse" -> skip_whitespace_reach(input, 0)
      [] ip \in { "array_close_or_element", "object_close_or_element" } ->
            skip_whitespace_reach(input, p + 1)
      [] ip = "structure_close_or_comma" -> skip_whitespace_reach(input, p)
      [] ip = "pop" /\ get_element_value(pop_element) = ROOT_MARKER ->
            skip_whitespace_reach(input, p)
      [] ip = "next_element" /\ skip_whitespace(input, p) # NULL ->
            value_reach(input, skip_whitespace(input, p))
      [] ip = "object_key" /\ skip_whitespace(input, p) # NULL ->
            IF input[skip_whitespace(input, p) + 1] # CH.quote
            THEN skip_whitespace(input, p)
            ELSE colon_reach(string_reach(input, skip_whitespace(input, p)), input)
      [] ip \in { "next_element", "object_key" } -> skip_whitespace_reach(input, p)
      [] OTHER -> NULL

\* C38: the step of parse() at every label, with the literal, number and
\* string scans it calls (the four-byte unrolled loop, the hex digits, the
\* look-ahead for a trail surrogate, the continuation bytes of a UTF-8
\* sequence, the NUL at a string's end), reads and writes the input buffer
\* only at offsets below its length, and the buffer keeps its length; the
\* highest offset a step touches is the byte that ends the number it has
\* scanned, else the last byte of the literal, string or key and colon
C38_InputAccessWithinLength ==
    /\ [](Len(input) = Len(source))
    /\ []((ip \in MachineLabels \cup { "parser_parse" }) =>
              StepReach < Len(input))
    /\ [][ (ip = "next_element" /\ ip' = "push_value") =>
              StepReach = IF value_tag_result' \in { TAG.integer, TAG.double_ }
                          THEN p' ELSE p' - 1 ]_ip
    /\ [][ (ip = "object_key" /\ ip' = "next_element") => StepReach = p' - 1 ]_ip

\* a string that ends the input unclosed after an escaped surrogate pair:
\* the scan has read the last byte of the buffer and stops there
C38_Witness ==
    /\ ip = "next_element"
    /\ p < Len(input) /\ input[p + 1] = CH.quote
    /\ StepReach = Len(input) - 1
    /\ \E k \in p + 2 .. Len(input) - 11 :
          /\ input[k] = CH.backslash /\ input[k + 1] = CH.u
          /\ input[k + 6] = CH.backslash /\ input[k + 7] = CH.u
          /\ k + 11 = Len(input)

(***************************************************************************)
(* The frames of the scratch stack.  A frame is the sentinel word at       *)
(* current_base and, above it, one word per array element or three words   *)
(* (key start, key end, element word) per object member.                   *)
(***************************************************************************)
\* what a sentinel word may carry in a frame that starts at base
NamesEnclosing(word, base) ==
    \/ get_element_value(word) = ROOT_MARKER
    \/ get_element_value(word) >= 0 /\ get_element_value(word) < base

\* the word at current_base is the sentinel of the current frame
SentinelInPlace == NamesEnclosing(arena[current_base], current_base)

\* C39: whenever pop_object runs, the words above the current frame's
\* sentinel are a multiple of 3 (with at least the sentinel below them), so
\* the assertion of install_object holds.  At every label of the machine
\* except pop the word at current_base carries ROOT_MARKER or the base
\* offset of the enclosing frame, which is strictly below current_base.
\* pop_array and pop_object copy that word into pop_element before
\* install_array or install_object runs; at the label pop the copy carries
\* ROOT_MARKER or an offset strictly below current_base, whatever the
\* installed record has left at current_base, and a frame that pop returns
\* to has its sentinel in place.
C39_FramesWellFormed ==
    /\ []((ip = "pop_object") => (FrameWords >= 0 /\ FrameWords % 3 = 0))
    /\ []((ip \in MachineLabels \ { "pop" }) =>
             (current_base < stack_top /\ SentinelInPlace))
    /\ []((ip = "pop") => NamesEnclosing(pop_element, current_base))
    /\ [][ (ip \in { "pop_array", "pop_object" } /\ ip' = "pop") =>
              pop_element' = arena[current_base] ]_ip
    /\ [][ (ip = "pop" /\ ip' = "push_value") =>
              (current_base' = get_element_value(pop_element)
               /\ stack_top' = current_base) ]_ip

\* C39 as stated: the word at current_base carries ROOT_MARKER or an offset
\* below current_base at every label of the machine, pop included
C39_SentinelAlwaysInPlace == (ip \in MachineLabels) => SentinelInPlace

\* an object of two or more members, nested in another frame, about to be
\* installed
C39_Witness ==
    /\ ip = "pop_object"
    /\ current_base > 0
    /\ FrameWords >= 6
    /\ get_element_value(arena[current_base]) # ROOT_MARKER
    /\ get_element_value(arena[current_base]) < current_base

====
